---- MODULE Spec2Model ----
(***************************************************************************)
(* Map Planner: the annotation model (markers, paths, areas) and the       *)
(* editing state machine of App / MapEditor / Sidebar.                     *)
(*                                                                         *)
(* Source of record: src/components/MapEditor.tsx, which holds the current *)
(* MapEditor component (lines 1-417) and the current App component (lines  *)
(* 674-1550); the current Sidebar is src/unnamed/part_000.                 *)
(*                                                                         *)
(* Numbers.  JavaScript numbers are modelled as fixed-point integers with  *)
(* Unit subdivisions per pixel, plus the three non-finite IEEE values.     *)
(* Arithmetic that is inexact in the code (Math.sqrt, a division) rounds to *)
(* the nearest representable value here as it does there.                  *)
(*                                                                         *)
(* Identifiers.  The code builds ids from Date.now(); the model draws them *)
(* from a strictly increasing clock, one tick per created marker, drawn    *)
(* path or area (two of them are never created in the same millisecond);   *)
(* the id of a link's path also holds the ids of its two markers.          *)
(*                                                                         *)
(* Rendering.  Every handler runs against the state of the latest render,  *)
(* and the effects of App run to completion before the next event; an      *)
(* action below is one event handler together with the effects it causes.  *)
(***************************************************************************)
EXTENDS Integers, Sequences, FiniteSets, TLC

(***************************************************************************)
(* Bounds of the model.                                                    *)
(***************************************************************************)
\* Subdivisions of one pixel (fixed-point resolution).
Unit == 2
\* Number of entities (markers, paths, areas) created in one run.
MaxClock == 3
\* Points of one path.
MaxPathLen == 3
\* Areas alive at the same time.
MaxAreas == 1
\* Paths alive at the same time.
MaxPaths == 2
\* Markers alive at the same time.
MaxMarkers == 2

(***************************************************************************)
(* Optional values: null / undefined is the empty tuple.                   *)
(***************************************************************************)
None == << >>
Some(x) == << x >>
IsSome(o) == o # << >>
Val(o) == o[1]

(***************************************************************************)
(* Numbers                                                                 *)
(***************************************************************************)
Huge == 10 ^ 6
PosInf == Huge
NegInf == -Huge
NaN == Huge + 1
\* What JSON.stringify writes for a non-finite number, read back as a non-number.
JNull == Huge + 2

\* n pixels.
Px(n) == n * Unit

IsFinite(a) == a # NaN /\ a # PosInf /\ a # NegInf /\ a # JNull

Neg(a) == IF a = NaN THEN NaN ELSE -a

Add(a, b) ==
    IF a = NaN \/ b = NaN THEN NaN
    ELSE IF a = PosInf THEN (IF b = NegInf THEN NaN ELSE PosInf)
    ELSE IF a = NegInf THEN (IF b = PosInf THEN NaN ELSE NegInf)
    ELSE IF b = PosInf \/ b = NegInf THEN b
    ELSE a + b

Sub(a, b) == Add(a, Neg(b))

\* a / n for a count n > 0, rounded to the nearest representable value.
DivBy(a, n) ==
    IF IsFinite(a) THEN (2 * a + n) \div (2 * n) ELSE a

Square(a) ==
    IF a = NaN THEN NaN
    ELSE IF a = PosInf \/ a = NegInf THEN PosInf
    ELSE a * a

MathMax(a, b) ==
    IF a = NaN \/ b = NaN THEN NaN ELSE IF a >= b THEN a ELSE b

MathMin(a, b) ==
    IF a = NaN \/ b = NaN THEN NaN ELSE IF a <= b THEN a ELSE b

\* The nearest integer to the square root of n >= 0.
NearestRoot(n) ==
    IF n = 0 THEN 0 ELSE CHOOSE r \in 1..n : r * r - r < n /\ n <= r * r + r

MathSqrt(a) ==
    IF a = NaN \/ a = NegInf THEN NaN
    ELSE IF a = PosInf THEN PosInf
    ELSE IF a < 0 THEN NaN
    ELSE NearestRoot(a)

\* a >= b as JavaScript evaluates it: false when either side is NaN.
NumGe(a, b) == a # NaN /\ b # NaN /\ a >= b

(***************************************************************************)
(* Geometry utilities                                                      *)
(***************************************************************************)
Pt(px, py) == [x |-> px, y |-> py]

distance(a, b) ==
    MathSqrt(Add(Square(Sub(a.x, b.x)), Square(Sub(a.y, b.y))))

clamp(value, min, max) == MathMin(max, MathMax(min, value))

\* imageSize is None (no clamping) or Some([width, height]).
areaBoundsFromCircle(center, radius, size) ==
    LET r == MathMax(Px(1), radius)
        tl == Pt(Sub(center.x, r), Sub(center.y, r))
        br == Pt(Add(center.x, r), Add(center.y, r))
    IN  IF IsSome(size)
        THEN [topLeft |-> Pt(clamp(tl.x, 0, Val(size).width), clamp(tl.y, 0, Val(size).height)),
              bottomRight |-> Pt(clamp(br.x, 0, Val(size).width), clamp(br.y, 0, Val(size).height))]
        ELSE [topLeft |-> tl, bottomRight |-> br]

circleFromBounds(topLeft, bottomRight) ==
    LET left == MathMin(topLeft.x, bottomRight.x)
        right == MathMax(topLeft.x, bottomRight.x)
        top == MathMin(topLeft.y, bottomRight.y)
        bottom == MathMax(topLeft.y, bottomRight.y)
        halfW == DivBy(Sub(right, left), 2)
        halfH == DivBy(Sub(bottom, top), 2)
    IN  [center |-> Pt(DivBy(Add(left, right), 2), DivBy(Add(top, bottom), 2)),
         radius |-> MathMax(Px(1), MathMax(halfW, halfH))]

(***************************************************************************)
(* Normalization of persisted / imported areas                             *)
(***************************************************************************)
\* An optional string field that is absent (undefined).
Undefined == "undefined"

\* typeof item.f === 'number'
HasNumber(item, f) == f \in DOMAIN item /\ item[f] # JNull

\* item.f is an object whose x and y are numbers
HasPoint(item, f) ==
    f \in DOMAIN item /\ item[f].x # JNull /\ item[f].y # JNull

\* The valid points of a legacy polygon, in order.
RECURSIVE ValidPoints(_)
ValidPoints(pts) ==
    IF pts = << >> THEN << >>
    ELSE (IF Head(pts).x # JNull /\ Head(pts).y # JNull
          THEN << Pt(Head(pts).x, Head(pts).y) >> ELSE << >>) \o ValidPoints(Tail(pts))

RECURSIVE SumX(_)
SumX(pts) == IF pts = << >> THEN 0 ELSE Add(Head(pts).x, SumX(Tail(pts)))

RECURSIVE SumY(_)
SumY(pts) == IF pts = << >> THEN 0 ELSE Add(Head(pts).y, SumY(Tail(pts)))

\* The distance to the first point in place of the greatest distance.
MaxDistanceToFirst(center, pts) == distance(center, pts[1])

\* Math.max(...points.map(p => distance(center, p))) for a non-empty list.
RECURSIVE MaxDistance(_, _)
MaxDistance(center, pts) ==
    IF Len(pts) = 1 THEN distance(center, pts[1])
    ELSE MathMax(distance(center, Head(pts)), MaxDistance(center, Tail(pts)))

\* The conversion with the bounding box taking precedence over the circle.
normalizeItemBoundsFirst(item, i) ==
    LET id == IF "id" \in DOMAIN item THEN item.id ELSE -i
        name == IF "name" \in DOMAIN item THEN item.name ELSE "Area"
        number == IF "number" \in DOMAIN item THEN item.number ELSE Undefined
    IN  IF HasPoint(item, "center") /\ HasNumber(item, "radius")
           /\ ~(HasPoint(item, "topLeft") /\ HasPoint(item, "bottomRight"))
        THEN LET r == IF IsFinite(item.radius) THEN MathMax(Px(1), item.radius) ELSE Px(1)
                 center == Pt(item.center.x, item.center.y)
                 b == areaBoundsFromCircle(center, r, None)
             IN  << [id |-> id, name |-> name, number |-> number, center |-> center,
                     radius |-> r, topLeft |-> b.topLeft, bottomRight |-> b.bottomRight] >>
        ELSE IF HasPoint(item, "topLeft") /\ HasPoint(item, "bottomRight")
        THEN LET c == circleFromBounds(Pt(item.topLeft.x, item.topLeft.y),
                                       Pt(item.bottomRight.x, item.bottomRight.y))
                 b == areaBoundsFromCircle(c.center, c.radius, None)
             IN  << [id |-> id, name |-> name, number |-> number, center |-> c.center,
                     radius |-> c.radius, topLeft |-> b.topLeft, bottomRight |-> b.bottomRight] >>
        ELSE IF "points" \in DOMAIN item /\ item.points # << >>
        THEN (LET points == ValidPoints(item.points)
             IN  IF points = << >> THEN << >>
                 ELSE LET center == Pt(DivBy(SumX(points), Len(points)),
                                       DivBy(SumY(points), Len(points)))
                          radius == MathMax(Px(1), MaxDistance(center, points))
                          b == areaBoundsFromCircle(center, radius, None)
                      IN  << [id |-> id, name |-> name, number |-> number, center |-> center,
                              radius |-> radius, topLeft |-> b.topLeft,
                              bottomRight |-> b.bottomRight] >>)
        ELSE << >>

\* One entry of the raw list: the canonical Area in a one-element sequence, or
\* nothing.  i is the entry's place, which stands for the random suffix of a
\* synthesized id.
normalizeItem(item, i) ==
    LET id == IF "id" \in DOMAIN item THEN item.id ELSE -i
        name == IF "name" \in DOMAIN item THEN item.name ELSE "Area"
        number == IF "number" \in DOMAIN item THEN item.number ELSE Undefined
    IN  IF HasPoint(item, "center") /\ HasNumber(item, "radius")
        THEN LET r == IF IsFinite(item.radius) THEN MathMax(Px(1), item.radius) ELSE Px(1)
                 center == Pt(item.center.x, item.center.y)
                 b == areaBoundsFromCircle(center, r, None)
             IN  << [id |-> id, name |-> name, number |-> number, center |-> center,
                     radius |-> r, topLeft |-> b.topLeft, bottomRight |-> b.bottomRight] >>
        ELSE IF HasPoint(item, "topLeft") /\ HasPoint(item, "bottomRight")
        THEN LET c == circleFromBounds(Pt(item.topLeft.x, item.topLeft.y),
                                       Pt(item.bottomRight.x, item.bottomRight.y))
                 b == areaBoundsFromCircle(c.center, c.radius, None)
             IN  << [id |-> id, name |-> name, number |-> number, center |-> c.center,
                     radius |-> c.radius, topLeft |-> b.topLeft, bottomRight |-> b.bottomRight] >>
        ELSE IF "points" \in DOMAIN item /\ item.points # << >>
        THEN (LET points == ValidPoints(item.points)
             IN  IF points = << >> THEN << >>
                 ELSE LET center == Pt(DivBy(SumX(points), Len(points)),
                                       DivBy(SumY(points), Len(points)))
                          radius == MathMax(Px(1), MaxDistance(center, points))
                          b == areaBoundsFromCircle(center, radius, None)
                      IN  << [id |-> id, name |-> name, number |-> number, center |-> center,
                              radius |-> radius, topLeft |-> b.topLeft,
                              bottomRight |-> b.bottomRight] >>)
        ELSE << >>

RECURSIVE normalizeFrom(_, _)
normalizeFrom(raw, i) ==
    IF i > Len(raw) THEN << >>
    ELSE normalizeItem(raw[i], i) \o normalizeFrom(raw, i + 1)

\* if (!Array.isArray(raw)) return []: a value that is not an array is a
\* function that is not a sequence.
normalizeAreas(raw) ==
    IF \E k \in DOMAIN raw : k < 1 THEN << >> ELSE normalizeFrom(raw, 1)

(***************************************************************************)
(* JSON: JSON.stringify writes null for a non-finite number and drops an   *)
(* undefined field; JSON.parse reads the rest back as it was.              *)
(***************************************************************************)
JsonNum(a) == IF IsFinite(a) THEN a ELSE JNull

JsonPt(p) == Pt(JsonNum(p.x), JsonNum(p.y))

JsonPoints(pts) == [i \in 1..Len(pts) |-> JsonPt(pts[i])]

JsonMarker(m) == [m EXCEPT !.position = JsonPt(@)]

JsonPath(p) == [p EXCEPT !.points = JsonPoints(@)]

JsonArea(a) ==
    LET fields == [id |-> a.id, name |-> a.name, center |-> JsonPt(a.center),
                   radius |-> JsonNum(a.radius), topLeft |-> JsonPt(a.topLeft),
                   bottomRight |-> JsonPt(a.bottomRight)]
    IN  IF a.number = Undefined THEN fields ELSE fields @@ [number |-> a.number]

\* JSON.parse(JSON.stringify({image, markers, paths, areas}))
JsonSnapshot(im, ms, ps, as) ==
    [image |-> im,
     markers |-> [i \in 1..Len(ms) |-> JsonMarker(ms[i])],
     paths |-> [i \in 1..Len(ps) |-> JsonPath(ps[i])],
     areas |-> [i \in 1..Len(as) |-> JsonArea(as[i])]]

\* Math.round: the nearest whole pixel, halves upwards.
MathRound(a) == IF IsFinite(a) THEN (a + Unit \div 2) \div Unit ELSE a

\* value.replace(/"/g, '\\"'); the names and tags of the model hold no quote.
LuaString(value) == IF value = Undefined THEN "" ELSE value

\* The text handleExportLua builds, line by line: the header with the time of
\* the export, one row per marker, one row per area.
LuaText(ms, as, now) ==
    [generated |-> now,
     markers |-> [i \in 1..Len(ms) |->
                    [name |-> LuaString(ms[i].name), number |-> LuaString(ms[i].number),
                     area |-> LuaString(ms[i].area),
                     x |-> MathRound(ms[i].position.x), y |-> MathRound(ms[i].position.y)]],
     areas |-> [i \in 1..Len(as) |->
                    [name |-> LuaString(as[i].name), number |-> LuaString(as[i].number),
                     centerX |-> MathRound(as[i].center.x),
                     centerY |-> MathRound(as[i].center.y),
                     radius |-> MathRound(as[i].radius),
                     topLeftX |-> MathRound(as[i].topLeft.x),
                     topLeftY |-> MathRound(as[i].topLeft.y),
                     bottomRightX |-> MathRound(as[i].bottomRight.x),
                     bottomRightY |-> MathRound(as[i].bottomRight.y)]]]

(***************************************************************************)
(* State of App (useState) and of MapEditor (dragging)                     *)
(***************************************************************************)
VARIABLES
    image,            \* data URI of the map, NoImage for null
    imageSize,        \* None | Some([width, height])
    loading,          \* the image whose decode is pending and not cancelled, or NoImage
    markers,          \* sequence of Marker
    paths,            \* sequence of Path
    areas,            \* sequence of Area
    activeTool,       \* "select" | "marker" | "path" | "area"
    selectedElement,  \* None | Some([type, id])
    linkingState,     \* None | Some([fromMarkerId])
    drawingPathId,    \* None | Some(id)
    drawingArea,      \* None | Some([id, center])
    dragging,         \* None | Some([type, id, pointIndex])
    colorFilters,     \* color -> BOOLEAN, a partial map
    areaFilters,      \* area tag -> BOOLEAN, a partial map
    numberFilters,    \* number tag -> BOOLEAN, a partial map
    storage,          \* None | Some(snapshot): localStorage['mapPlannerState']
    clock,            \* Date.now(), in ticks
    alert,            \* None | Some(message): what the latest handler passed to alert()
    download          \* None | Some(text): the last map-positions.lua offered for download

vars == << image, imageSize, loading, markers, paths, areas, activeTool,
           selectedElement, linkingState, drawingPathId, drawingArea, dragging,
           colorFilters, areaFilters, numberFilters, storage, clock, alert, download >>

\* Everything but the message box and the downloaded file.
state == << image, imageSize, loading, markers, paths, areas, activeTool,
            selectedElement, linkingState, drawingPathId, drawingArea, dragging,
            colorFilters, areaFilters, numberFilters, storage, clock >>

NoImage == ""
DefaultColor == "#10b981"
PathColor == "#f59e0b"
Colors == {"#10b981", "#ef4444"}
Tools == {"select", "marker", "path", "area"}
EmptyMap == [k \in {} |-> TRUE]

\* The images a user can load, and the natural size each decodes to.
\* "corrupt" is a data URI that fails to decode.
Images == {"imgA", "imgB", "corrupt"}
SizeOf(img) ==
    IF img = "imgA" THEN [width |-> Px(4), height |-> Px(4)]
    ELSE [width |-> Px(6), height |-> Px(2)]

(***************************************************************************)
(* Lookups                                                                 *)
(***************************************************************************)
Range(seq) == {seq[i] : i \in 1..Len(seq)}

Ids(seq) == {seq[i].id : i \in 1..Len(seq)}

\* Array.prototype.find by id: None when no element has the id.
Find(seq, id) ==
    IF \E i \in 1..Len(seq) : seq[i].id = id
    THEN Some(seq[CHOOSE i \in 1..Len(seq) :
                    seq[i].id = id /\ \A j \in 1..(i - 1) : seq[j].id # id])
    ELSE None

\* Array.prototype.filter is SelectSeq.
Includes(seq, x) == \E i \in 1..Len(seq) : seq[i] = x

\* marker.color || '#10b981'
ColorOf(m) == IF m.color \in {Undefined, ""} THEN DefaultColor ELSE m.color

(***************************************************************************)
(* Filter engine                                                           *)
(***************************************************************************)
\* filters[key] === false
IsFalse(filters, key) == key \in DOMAIN filters /\ filters[key] = FALSE

\* The filter without its test of the number filter.
MarkerVisibleIgnoringNumber(m, cf, af, nf) ==
    /\ ~IsFalse(cf, ColorOf(m))
    /\ ~(m.area # Undefined /\ m.area # "" /\ IsFalse(af, m.area))

MarkerVisible(m, cf, af, nf) ==
    /\ ~IsFalse(cf, ColorOf(m))
    /\ ~(m.area # Undefined /\ m.area # "" /\ IsFalse(af, m.area))
    /\ ~(m.number # Undefined /\ m.number # "" /\ IsFalse(nf, m.number))

filteredMarkers(ms, cf, af, nf) ==
    LET Keep(m) == MarkerVisible(m, cf, af, nf) IN SelectSeq(ms, Keep)

\* The path filter testing only the start marker of a link.
filteredPathsStartOnly(ps, ms, cf, af, nf) ==
    LET visibleMarkerIds == Ids(filteredMarkers(ms, cf, af, nf))
        Keep(p) == \/ p.linkedMarkers = None
                   \/ Val(p.linkedMarkers).startId \in visibleMarkerIds
    IN  SelectSeq(ps, Keep)

filteredPaths(ps, ms, cf, af, nf) ==
    LET visibleMarkerIds == Ids(filteredMarkers(ms, cf, af, nf))
        Keep(p) == \/ p.linkedMarkers = None
                   \/ /\ Val(p.linkedMarkers).startId \in visibleMarkerIds
                      /\ Val(p.linkedMarkers).endId \in visibleMarkerIds
    IN  SelectSeq(ps, Keep)

\* What MapEditor is given to draw.
VisibleMarkers == filteredMarkers(markers, colorFilters, areaFilters, numberFilters)
VisiblePaths == filteredPaths(paths, markers, colorFilters, areaFilters, numberFilters)

(***************************************************************************)
(* Effects of App, which run after the render that follows a handler       *)
(***************************************************************************)
\* The sync without its removal of the colours that no longer exist.
SyncColorFiltersKeepingKeys(ms, prevFilters) ==
    LET uniqueColors == {ColorOf(ms[i]) : i \in 1..Len(ms)}
    IN  [c \in uniqueColors \cup DOMAIN prevFilters |->
            IF c \in DOMAIN prevFilters THEN prevFilters[c] ELSE TRUE]

\* Sync color filters with available marker colors.
SyncColorFilters(ms, prevFilters) ==
    LET uniqueColors == {ColorOf(ms[i]) : i \in 1..Len(ms)}
    IN  [c \in uniqueColors |-> IF c \in DOMAIN prevFilters THEN prevFilters[c] ELSE TRUE]

\* Deselect element if it gets filtered out.
DeselectIfFiltered(sel, ms, cf) ==
    IF IsSome(sel) /\ Val(sel).type = "marker" /\ IsSome(Find(ms, Val(sel).id))
       /\ IsFalse(cf, ColorOf(Val(Find(ms, Val(sel).id))))
    THEN None ELSE sel

\* The save effect without its test of the image.
SaveEffectWithoutImageTest(im, ms, ps, as, stored) == Some(JsonSnapshot(im, ms, ps, as))

\* Save state to localStorage whenever it changes.
\* localStorage.setItem throws (quota exceeded) for a snapshot that holds this
\* image, a data URI longer than the quota; the effect catches the exception.
OverQuota(im) == im = "imgHuge"

SaveEffect(im, ms, ps, as, stored) ==
    IF im # NoImage /\ ~OverQuota(im) THEN Some(JsonSnapshot(im, ms, ps, as)) ELSE stored

\* Re-clamp every area's box once the image size is known.
ReclampAreas(as, size) ==
    [i \in 1..Len(as) |->
        LET b == areaBoundsFromCircle(as[i].center, as[i].radius, size)
        IN  [as[i] EXCEPT !.topLeft = b.topLeft, !.bottomRight = b.bottomRight]]

\* The state after a handler has set (im, size, ms, ps, as, tool, sel, link,
\* dpath, darea) and the effects that depend on them have run.
RenderState(im, size, ms, ps, as, tool, sel, link, dpath, darea) ==
    /\ image' = im
    /\ loading' = IF im # image THEN (IF im = NoImage THEN NoImage ELSE im) ELSE loading
    /\ imageSize' = IF im # image /\ im = NoImage THEN None ELSE size
    /\ markers' = ms
    /\ paths' = ps
    /\ areas' = as
    /\ activeTool' = tool
    /\ colorFilters' = SyncColorFilters(ms, colorFilters)
    /\ selectedElement' = DeselectIfFiltered(sel, ms, SyncColorFilters(ms, colorFilters))
    /\ linkingState' = link
    /\ drawingPathId' = IF tool # activeTool /\ tool # "path" THEN None ELSE dpath
    /\ drawingArea' = IF tool # activeTool /\ tool # "area" THEN None ELSE darea
    /\ alert' = None
    /\ UNCHANGED download
    /\ UNCHANGED << areaFilters, numberFilters >>

\* A render whose save effect does not catch the exception of a failed write:
\* the component tree is unmounted and its state is lost.
RenderLosingStateOnFailedWrite(im, size, ms, ps, as, tool, sel, link, dpath, darea) ==
    IF OverQuota(im)
    THEN /\ RenderState(NoImage, None, << >>, << >>, << >>, "select", None, None, None,
                        None)
         /\ storage' = storage
    ELSE /\ RenderState(im, size, ms, ps, as, tool, sel, link, dpath, darea)
         /\ storage' = SaveEffect(im, ms, ps, as, storage)

Render(im, size, ms, ps, as, tool, sel, link, dpath, darea) ==
    /\ RenderState(im, size, ms, ps, as, tool, sel, link, dpath, darea)
    /\ storage' = SaveEffect(im, ms, ps, as, storage)

Init ==
    /\ image = NoImage
    /\ imageSize = None
    /\ loading = NoImage
    /\ markers = << >>
    /\ paths = << >>
    /\ areas = << >>
    /\ activeTool = "select"
    /\ selectedElement = None
    /\ linkingState = None
    /\ drawingPathId = None
    /\ drawingArea = None
    /\ dragging = None
    /\ colorFilters = EmptyMap
    /\ areaFilters = EmptyMap
    /\ numberFilters = EmptyMap
    /\ storage = None
    /\ clock = 0
    /\ alert = None
    /\ download = None

(***************************************************************************)
(* Annotation model: the pure part of each mutation of App                 *)
(***************************************************************************)
\* { ...m, ...data }
Merge(m, data) == data @@ m

\* addMarker numbering the marker after its creation time.
addMarkerNumberedByTime(ms, position, now) ==
    Append(ms, [id |-> now,
                number |-> ToString(now),
                name |-> "New Marker",
                area |-> Undefined,
                position |-> position,
                status |-> "pending",
                linkedMarkerIds |-> << >>,
                color |-> DefaultColor])

addMarker(ms, position, now) ==
    Append(ms, [id |-> now,
                number |-> ToString(Len(ms) + 1),
                name |-> "New Marker",
                area |-> Undefined,
                position |-> position,
                status |-> "pending",
                linkedMarkerIds |-> << >>,
                color |-> DefaultColor])

\* setMarkers(markers.map(m => m.id === id ? { ...m, ...newMarkerData } : m))
updateMarkerMarkers(ms, id, newMarkerData) ==
    [i \in 1..Len(ms) |-> IF ms[i].id = id THEN Merge(ms[i], newMarkerData) ELSE ms[i]]

\* updateMarker with the re-sync of the start points only: a path no longer
\* follows its end marker.
updateMarkerPathsStartOnly(ps, id, newMarkerData) ==
    IF "position" \in DOMAIN newMarkerData
    THEN [i \in 1..Len(ps) |->
            LET p == ps[i] IN
            IF IsSome(p.linkedMarkers) /\ Val(p.linkedMarkers).startId = id
            THEN [p EXCEPT !.points = [@ EXCEPT ![1] = newMarkerData.position]]
            ELSE p]
    ELSE ps

\* The re-sync of linked paths when newMarkerData has a position.
updateMarkerPaths(ps, id, newMarkerData) ==
    IF "position" \in DOMAIN newMarkerData
    THEN [i \in 1..Len(ps) |->
            LET p == ps[i] IN
            IF IsSome(p.linkedMarkers) /\ Val(p.linkedMarkers).startId = id
            THEN [p EXCEPT !.points = [@ EXCEPT ![1] = newMarkerData.position]]
            ELSE IF IsSome(p.linkedMarkers) /\ Val(p.linkedMarkers).endId = id
            THEN [p EXCEPT !.points = [@ EXCEPT ![Len(@)] = newMarkerData.position]]
            ELSE p]
    ELSE ps

updatePath(ps, id, newPathData) ==
    [i \in 1..Len(ps) |-> IF ps[i].id = id THEN Merge(ps[i], newPathData) ELSE ps[i]]

\* newPoints.splice(index, 0, point), index counted from 0.
Splice(points, index, point) ==
    LET k == IF index > Len(points) THEN Len(points) ELSE index
    IN  SubSeq(points, 1, k) \o << point >> \o SubSeq(points, k + 1, Len(points))

\* insertPathPoint that splices one place too early.
insertPathPointOnePlaceEarly(ps, pathId, point, index) ==
    [i \in 1..Len(ps) |->
        IF ps[i].id = pathId THEN [ps[i] EXCEPT !.points = Splice(@, index - 1, point)]
        ELSE ps[i]]

insertPathPoint(ps, pathId, point, index) ==
    [i \in 1..Len(ps) |->
        IF ps[i].id = pathId THEN [ps[i] EXCEPT !.points = Splice(@, index, point)]
        ELSE ps[i]]

\* linkedMarkerIds.filter(id => id !== removed)
Without(ids, removed) == LET Keep(id) == id # removed IN SelectSeq(ids, Keep)

\* deleteSelected, marker branch, without the stripping of the link lists.
deleteMarkerKeepingLinks(ms, ps, markerIdToDelete) ==
    LET KeepMarker(m) == m.id # markerIdToDelete
        KeepPath(p) ==
            ~(IsSome(p.linkedMarkers) /\ Val(p.linkedMarkers).startId = markerIdToDelete)
            /\ ~(IsSome(p.linkedMarkers) /\ Val(p.linkedMarkers).endId = markerIdToDelete)
    IN  [markers |-> SelectSeq(ms, KeepMarker), paths |-> SelectSeq(ps, KeepPath)]

\* deleteSelected, marker branch, removing only the paths that start at the marker.
deleteMarkerKeepingInboundPaths(ms, ps, markerIdToDelete) ==
    LET updatedMarkers ==
            [i \in 1..Len(ms) |->
                [ms[i] EXCEPT !.linkedMarkerIds = Without(@, markerIdToDelete)]]
        KeepMarker(m) == m.id # markerIdToDelete
        KeepPath(p) ==
            ~(IsSome(p.linkedMarkers) /\ Val(p.linkedMarkers).startId = markerIdToDelete)
    IN  [markers |-> SelectSeq(updatedMarkers, KeepMarker), paths |-> SelectSeq(ps, KeepPath)]

\* deleteSelected, marker branch: the markers and the paths it sets.
deleteMarker(ms, ps, markerIdToDelete) ==
    LET updatedMarkers ==
            [i \in 1..Len(ms) |->
                [ms[i] EXCEPT !.linkedMarkerIds = Without(@, markerIdToDelete)]]
        KeepMarker(m) == m.id # markerIdToDelete
        KeepPath(p) ==
            ~(IsSome(p.linkedMarkers) /\ Val(p.linkedMarkers).startId = markerIdToDelete)
            /\ ~(IsSome(p.linkedMarkers) /\ Val(p.linkedMarkers).endId = markerIdToDelete)
    IN  [markers |-> SelectSeq(updatedMarkers, KeepMarker), paths |-> SelectSeq(ps, KeepPath)]

\* The deletion of a path that leaves the link list of its start marker alone.
deletePathKeepingLink(ms, ps, pathId) ==
    LET KeepPath(p) == p.id # pathId
    IN  [markers |-> ms, paths |-> SelectSeq(ps, KeepPath)]

\* deleteSelected, path branch.
deletePath(ms, ps, pathId) ==
    LET pathToDelete == Find(ps, pathId)
        link == Val(pathToDelete).linkedMarkers
        fromMarker == Find(ms, Val(link).startId)
        KeepPath(p) == p.id # pathId
    IN  [markers |->
            IF IsSome(pathToDelete) /\ IsSome(link) /\ IsSome(fromMarker)
            THEN updateMarkerMarkers(ms, Val(fromMarker).id,
                    [linkedMarkerIds |->
                        Without(Val(fromMarker).linkedMarkerIds, Val(link).endId)])
            ELSE ms,
         paths |-> SelectSeq(ps, KeepPath)]

\* A deletion that empties the list of areas.
deleteAreaWithTheOthers(as, areaId) == << >>

\* deleteSelected, area branch.
deleteArea(as, areaId) == LET Keep(a) == a.id # areaId IN SelectSeq(as, Keep)

\* The id template `path-${fromMarkerId}-${toMarkerId}-${Date.now()}`: injective
\* in its three parts and distinct from every `path-${Date.now()}`.
IdBase == MaxClock + 2

LinkPathId(fromMarkerId, toMarkerId, now) ==
    ((fromMarkerId * IdBase) + toMarkerId) * IdBase + now

\* handleLinkMarkers giving the new path the default marker color instead of
\* the color of its start marker.
handleLinkMarkersDefaultColor(ms, ps, fromMarkerId, toMarkerId, now) ==
    LET fromMarker == Find(ms, fromMarkerId)
        toMarker == Find(ms, toMarkerId)
        newPath == [id |-> LinkPathId(fromMarkerId, toMarkerId, now),
                    points |-> << Val(fromMarker).position, Val(toMarker).position >>,
                    linkedMarkers |-> Some([startId |-> fromMarkerId, endId |-> toMarkerId]),
                    color |-> DefaultColor]
    IN  IF fromMarkerId = toMarkerId THEN [markers |-> ms, paths |-> ps]
        ELSE IF IsSome(fromMarker) /\ IsSome(toMarker)
        THEN IF Includes(Val(fromMarker).linkedMarkerIds, toMarkerId)
             THEN [markers |-> ms, paths |-> ps]
             ELSE [markers |->
                      [i \in 1..Len(ms) |->
                          IF ms[i].id = fromMarkerId
                          THEN [ms[i] EXCEPT !.linkedMarkerIds = Append(@, toMarkerId)]
                          ELSE ms[i]],
                   paths |-> Append(ps, newPath)]
        ELSE [markers |-> ms, paths |-> ps]

\* handleLinkMarkers without the alreadyLinked test.
handleLinkMarkersNoDuplicateTest(ms, ps, fromMarkerId, toMarkerId, now) ==
    LET fromMarker == Find(ms, fromMarkerId)
        toMarker == Find(ms, toMarkerId)
        newPath == [id |-> LinkPathId(fromMarkerId, toMarkerId, now),
                    points |-> << Val(fromMarker).position, Val(toMarker).position >>,
                    linkedMarkers |-> Some([startId |-> fromMarkerId, endId |-> toMarkerId]),
                    color |-> Val(fromMarker).color]
    IN  IF fromMarkerId = toMarkerId THEN [markers |-> ms, paths |-> ps]
        ELSE IF IsSome(fromMarker) /\ IsSome(toMarker)
        THEN [markers |->
                 [i \in 1..Len(ms) |->
                     IF ms[i].id = fromMarkerId
                     THEN [ms[i] EXCEPT !.linkedMarkerIds = Append(@, toMarkerId)]
                     ELSE ms[i]],
              paths |-> Append(ps, newPath)]
        ELSE [markers |-> ms, paths |-> ps]

\* handleLinkMarkers: the markers and the paths it leaves.
handleLinkMarkers(ms, ps, fromMarkerId, toMarkerId, now) ==
    LET fromMarker == Find(ms, fromMarkerId)
        toMarker == Find(ms, toMarkerId)
        newPath == [id |-> LinkPathId(fromMarkerId, toMarkerId, now),
                    points |-> << Val(fromMarker).position, Val(toMarker).position >>,
                    linkedMarkers |-> Some([startId |-> fromMarkerId, endId |-> toMarkerId]),
                    color |-> Val(fromMarker).color]
    IN  IF fromMarkerId = toMarkerId THEN [markers |-> ms, paths |-> ps]
        ELSE IF IsSome(fromMarker) /\ IsSome(toMarker)
        THEN IF Includes(Val(fromMarker).linkedMarkerIds, toMarkerId)
             THEN [markers |-> ms, paths |-> ps]
             ELSE [markers |->
                      [i \in 1..Len(ms) |->
                          IF ms[i].id = fromMarkerId
                          THEN [ms[i] EXCEPT !.linkedMarkerIds = Append(@, toMarkerId)]
                          ELSE ms[i]],
                   paths |-> Append(ps, newPath)]
        ELSE [markers |-> ms, paths |-> ps]

\* handleRemoveLink without the removal of the link's path.
handleRemoveLinkKeepingPath(ms, ps, fromMarkerId, toMarkerId) ==
    LET fromMarker == Find(ms, fromMarkerId)
    IN  [markers |->
            IF IsSome(fromMarker)
            THEN updateMarkerMarkers(ms, fromMarkerId,
                    [linkedMarkerIds |-> Without(Val(fromMarker).linkedMarkerIds, toMarkerId)])
            ELSE ms,
         paths |-> ps]

\* handleRemoveLink: the markers and the paths it leaves.
handleRemoveLink(ms, ps, fromMarkerId, toMarkerId) ==
    LET fromMarker == Find(ms, fromMarkerId)
        KeepPath(p) ==
            ~(IsSome(p.linkedMarkers) /\ Val(p.linkedMarkers).startId = fromMarkerId
              /\ Val(p.linkedMarkers).endId = toMarkerId)
    IN  [markers |->
            IF IsSome(fromMarker)
            THEN updateMarkerMarkers(ms, fromMarkerId,
                    [linkedMarkerIds |-> Without(Val(fromMarker).linkedMarkerIds, toMarkerId)])
            ELSE ms,
         paths |-> SelectSeq(ps, KeepPath)]

addArea(as, point, size, now) ==
    LET bounds == areaBoundsFromCircle(point, Px(1), size)
    IN  Append(as, [id |-> now,
                    number |-> ToString(Len(as) + 1),
                    name |-> "New Area",
                    center |-> point,
                    radius |-> Px(1),
                    topLeft |-> bounds.topLeft,
                    bottomRight |-> bounds.bottomRight])

\* updateArea without the recomputation of the box after a circle edit.
updateAreaKeepingBox(as, id, newAreaData, size) ==
    [i \in 1..Len(as) |-> IF as[i].id # id THEN as[i] ELSE Merge(as[i], newAreaData)]

updateArea(as, id, newAreaData, size) ==
    [i \in 1..Len(as) |->
        IF as[i].id # id THEN as[i]
        ELSE LET merged == Merge(as[i], newAreaData) IN
             IF "topLeft" \in DOMAIN newAreaData \/ "bottomRight" \in DOMAIN newAreaData
             THEN LET topLeft ==
                          IF IsSome(size)
                          THEN Pt(clamp(merged.topLeft.x, 0, Val(size).width),
                                  clamp(merged.topLeft.y, 0, Val(size).height))
                          ELSE merged.topLeft
                      bottomRight ==
                          IF IsSome(size)
                          THEN Pt(clamp(merged.bottomRight.x, 0, Val(size).width),
                                  clamp(merged.bottomRight.y, 0, Val(size).height))
                          ELSE merged.bottomRight
                      circle == circleFromBounds(topLeft, bottomRight)
                      bounds == areaBoundsFromCircle(circle.center, circle.radius, size)
                  IN  [merged EXCEPT !.center = circle.center, !.radius = circle.radius,
                                     !.topLeft = bounds.topLeft,
                                     !.bottomRight = bounds.bottomRight]
             ELSE LET bounds == areaBoundsFromCircle(merged.center, merged.radius, size)
                  IN  [merged EXCEPT !.topLeft = bounds.topLeft,
                                     !.bottomRight = bounds.bottomRight]]

(***************************************************************************)
(* Events: tools and the drawing surface (MapEditor)                       *)
(***************************************************************************)
\* The selected element of the given type, as the Sidebar and MapEditor look
\* it up: None when nothing of that type is selected or it no longer exists.
Selected(type, seq) ==
    IF IsSome(selectedElement) /\ Val(selectedElement).type = type
    THEN Find(seq, Val(selectedElement).id) ELSE None

\* One pointer: a press, a click or a use of the Sidebar happens only with the
\* button up, and releasing the button or leaving the drawing surface has then
\* cleared the drag state (handleMouseUp).  Keys can be pressed at any time.
PointerFree == dragging = None

\* The tool button without the two effects on activeTool.
SetActiveToolWithoutEffects(tool) ==
    /\ PointerFree
    /\ tool # activeTool
    /\ activeTool' = tool
    /\ alert' = None
    /\ UNCHANGED download
    /\ UNCHANGED << image, imageSize, loading, markers, paths, areas, selectedElement,
                    linkingState, drawingPathId, drawingArea, dragging, colorFilters,
                    areaFilters, numberFilters, storage, clock >>

\* Sidebar tool button.
SetActiveTool(tool) ==
    /\ PointerFree
    /\ tool # activeTool
    /\ Render(image, imageSize, markers, paths, areas, tool, selectedElement,
              linkingState, drawingPathId, drawingArea)
    /\ UNCHANGED << dragging, clock >>

\* handleMouseDown while linking: ignored.
MouseDownWhileLinking ==
    /\ PointerFree
    /\ image # NoImage
    /\ IsSome(linkingState)
    /\ UNCHANGED state
    /\ alert' = None
    /\ UNCHANGED download

\* handleMouseDown, select tool: press on the background (or on a path or an
\* area, which do not stop the press) deselects.
MouseDownSelect ==
    /\ PointerFree
    /\ image # NoImage
    /\ linkingState = None
    /\ activeTool = "select"
    /\ Render(image, imageSize, markers, paths, areas, activeTool, None,
              linkingState, drawingPathId, drawingArea)
    /\ UNCHANGED << dragging, clock >>

\* handleMouseDown, marker tool.
AddMarker(pos) ==
    /\ PointerFree
    /\ image # NoImage
    /\ linkingState = None
    /\ activeTool = "marker"
    /\ clock < MaxClock
    /\ Len(markers) < MaxMarkers
    /\ clock' = clock + 1
    /\ Render(image, imageSize, addMarker(markers, pos, clock + 1), paths, areas,
              activeTool, selectedElement, linkingState, drawingPathId, drawingArea)
    /\ UNCHANGED dragging

\* addPathPoint that never records the path it creates as the active one.
AddPathPointWithoutActiveId(pos) ==
    /\ PointerFree
    /\ image # NoImage
    /\ linkingState = None
    /\ activeTool = "path"
    /\ clock < MaxClock
    /\ Len(paths) < MaxPaths
    /\ clock' = clock + 1
    /\ Render(image, imageSize, markers,
              Append(paths, [id |-> clock + 1, points |-> << pos >>,
                             linkedMarkers |-> None, color |-> PathColor]),
              areas, activeTool, None, linkingState, None, drawingArea)
    /\ UNCHANGED dragging

\* handleMouseDown, path tool: addPathPoint.
AddPathPoint(pos) ==
    /\ PointerFree
    /\ image # NoImage
    /\ linkingState = None
    /\ activeTool = "path"
    /\ IF IsSome(drawingPathId)
       THEN LET path == Find(paths, Val(drawingPathId)) IN
            /\ IsSome(path) => Len(Val(path).points) < MaxPathLen
            /\ Render(image, imageSize, markers,
                      IF IsSome(path)
                      THEN updatePath(paths, Val(drawingPathId),
                                      [points |-> Append(Val(path).points, pos)])
                      ELSE paths,
                      areas, activeTool, selectedElement, linkingState, drawingPathId,
                      drawingArea)
            /\ UNCHANGED clock
       ELSE /\ clock < MaxClock
            /\ Len(paths) < MaxPaths
            /\ clock' = clock + 1
            /\ Render(image, imageSize, markers,
                      Append(paths, [id |-> clock + 1, points |-> << pos >>,
                                     linkedMarkers |-> None, color |-> PathColor]),
                      areas, activeTool, None, linkingState, Some(clock + 1), drawingArea)
    /\ UNCHANGED dragging

\* handleMouseDown, area tool: addAreaPoint.
AddAreaPoint(pos) ==
    /\ PointerFree
    /\ image # NoImage
    /\ linkingState = None
    /\ activeTool = "area"
    /\ IF drawingArea = None
       THEN /\ clock < MaxClock
            /\ Len(areas) < MaxAreas
            /\ clock' = clock + 1
            /\ Render(image, imageSize, markers, paths,
                      addArea(areas, pos, imageSize, clock + 1), activeTool,
                      Some([type |-> "area", id |-> clock + 1]), linkingState,
                      drawingPathId, Some([id |-> clock + 1, center |-> pos]))
       ELSE /\ Render(image, imageSize, markers, paths,
                      updateArea(areas, Val(drawingArea).id,
                          [radius |-> MathMax(Px(1), distance(Val(drawingArea).center, pos))],
                          imageSize),
                      activeTool, selectedElement, linkingState, drawingPathId, None)
            /\ UNCHANGED clock
    /\ UNCHANGED dragging

\* The marker press without the test of the tool.
MarkerMouseDownAnyTool(id) ==
    /\ PointerFree
    /\ image # NoImage
    /\ id \in Ids(VisibleMarkers)
    /\ dragging' = IF linkingState = None
                   THEN Some([type |-> "marker", id |-> id, pointIndex |-> -1])
                   ELSE dragging
    /\ UNCHANGED << image, imageSize, loading, markers, paths, areas, activeTool,
                    selectedElement, linkingState, drawingPathId, drawingArea,
                    colorFilters, areaFilters, numberFilters, storage, clock >>
    /\ alert' = None
    /\ UNCHANGED download

\* Marker circle, onMouseDown.
MarkerMouseDown(id) ==
    /\ PointerFree
    /\ image # NoImage
    /\ id \in Ids(VisibleMarkers)
    /\ dragging' = IF activeTool = "select" /\ linkingState = None
                   THEN Some([type |-> "marker", id |-> id, pointIndex |-> -1])
                   ELSE dragging
    /\ UNCHANGED << image, imageSize, loading, markers, paths, areas, activeTool,
                    selectedElement, linkingState, drawingPathId, drawingArea,
                    colorFilters, areaFilters, numberFilters, storage, clock >>
    /\ alert' = None
    /\ UNCHANGED download

\* Marker circle, onClick: complete a link, or select.
MarkerClick(id) ==
    /\ PointerFree
    /\ image # NoImage
    /\ id \in Ids(VisibleMarkers)
    /\ IF IsSome(linkingState) /\ Val(linkingState).fromMarkerId # id
       THEN LET from == Val(linkingState).fromMarkerId
                r == handleLinkMarkers(markers, paths, from, id, clock)
            IN  /\ Len(r.paths) <= MaxPaths
                /\ UNCHANGED clock
                /\ Render(image, imageSize, r.markers, r.paths, areas, activeTool,
                          selectedElement, None, drawingPathId, drawingArea)
       ELSE /\ Render(image, imageSize, markers, paths, areas, activeTool,
                      IF activeTool = "select" THEN Some([type |-> "marker", id |-> id])
                      ELSE selectedElement,
                      linkingState, drawingPathId, drawingArea)
            /\ UNCHANGED clock
    /\ UNCHANGED dragging

\* Path hit target, onClick.
PathClick(id) ==
    /\ PointerFree
    /\ image # NoImage
    /\ id \in Ids(VisiblePaths)
    /\ Render(image, imageSize, markers, paths, areas, activeTool,
              IF activeTool = "select" /\ linkingState = None
              THEN Some([type |-> "path", id |-> id]) ELSE selectedElement,
              linkingState, drawingPathId, drawingArea)
    /\ UNCHANGED << dragging, clock >>

\* Area click target, onClick.
AreaClick(id) ==
    /\ PointerFree
    /\ image # NoImage
    /\ id \in Ids(areas)
    /\ Render(image, imageSize, markers, paths, areas, activeTool,
              IF activeTool = "select" /\ linkingState = None
              THEN Some([type |-> "area", id |-> id]) ELSE selectedElement,
              linkingState, drawingPathId, drawingArea)
    /\ UNCHANGED << dragging, clock >>

\* The path whose handles MapEditor draws: the selected path, if visible.
HandlePath ==
    IF IsSome(selectedElement) /\ Val(selectedElement).type = "path"
    THEN Find(VisiblePaths, Val(selectedElement).id) ELSE None

\* The point handle with canDrag always true.
PathPointMouseDownAnyPoint(index) ==
    /\ PointerFree
    /\ image # NoImage
    /\ IsSome(HandlePath)
    /\ index \in 0..(Len(Val(HandlePath).points) - 1)
    /\ dragging' = IF activeTool = "select"
                   THEN Some([type |-> "pathPoint", id |-> Val(HandlePath).id,
                              pointIndex |-> index])
                   ELSE dragging
    /\ UNCHANGED << image, imageSize, loading, markers, paths, areas, activeTool,
                    selectedElement, linkingState, drawingPathId, drawingArea,
                    colorFilters, areaFilters, numberFilters, storage, clock >>
    /\ alert' = None
    /\ UNCHANGED download

\* Point handle of the selected path, onMouseDown; index counted from 0.
PathPointMouseDown(index) ==
    /\ PointerFree
    /\ image # NoImage
    /\ IsSome(HandlePath)
    /\ index \in 0..(Len(Val(HandlePath).points) - 1)
    /\ LET path == Val(HandlePath)
           isLinked == IsSome(path.linkedMarkers)
           isEndpoint == index = 0 \/ index = Len(path.points) - 1
           canDrag == ~isLinked \/ ~isEndpoint
       IN  dragging' = IF activeTool = "select" /\ canDrag
                       THEN Some([type |-> "pathPoint", id |-> path.id, pointIndex |-> index])
                       ELSE dragging
    /\ UNCHANGED << image, imageSize, loading, markers, paths, areas, activeTool,
                    selectedElement, linkingState, drawingPathId, drawingArea,
                    colorFilters, areaFilters, numberFilters, storage, clock >>
    /\ alert' = None
    /\ UNCHANGED download

\* Mid-segment handle between points index and index + 1, onMouseDown.
MidHandleMouseDown(index, pos) ==
    /\ PointerFree
    /\ image # NoImage
    /\ activeTool = "select"
    /\ IsSome(HandlePath)
    /\ index \in 0..(Len(Val(HandlePath).points) - 2)
    /\ Len(Val(HandlePath).points) < MaxPathLen
    /\ Render(image, imageSize, markers,
              insertPathPoint(paths, Val(HandlePath).id, pos, index + 1),
              areas, activeTool, selectedElement, linkingState, drawingPathId, drawingArea)
    /\ dragging' = Some([type |-> "pathPoint", id |-> Val(HandlePath).id,
                         pointIndex |-> index + 1])
    /\ UNCHANGED clock

\* Center / radius handle of the selected area, onMouseDown.
AreaHandleMouseDown(type) ==
    /\ PointerFree
    /\ image # NoImage
    /\ activeTool = "select"
    /\ IsSome(Selected("area", areas))
    /\ dragging' = Some([type |-> type, id |-> Val(Selected("area", areas)).id,
                         pointIndex |-> -1])
    /\ UNCHANGED << image, imageSize, loading, markers, paths, areas, activeTool,
                    selectedElement, linkingState, drawingPathId, drawingArea,
                    colorFilters, areaFilters, numberFilters, storage, clock >>
    /\ alert' = None
    /\ UNCHANGED download

\* handleMouseMove while an area is being drawn: preview the radius.
PreviewArea(pos) ==
    /\ image # NoImage
    /\ dragging = None /\ activeTool = "area" /\ IsSome(drawingArea) /\ linkingState = None
    /\ Render(image, imageSize, markers, paths,
              updateArea(areas, Val(drawingArea).id,
                  [radius |-> MathMax(Px(1), distance(Val(drawingArea).center, pos))],
                  imageSize),
              activeTool, selectedElement, linkingState, drawingPathId, drawingArea)
    /\ UNCHANGED << dragging, clock >>

\* handleMouseMove with nothing dragged and no area being drawn: ignored.
MouseMoveIdle ==
    /\ image # NoImage
    /\ dragging = None
    /\ ~(activeTool = "area" /\ IsSome(drawingArea) /\ linkingState = None)
    /\ UNCHANGED state
    /\ alert' = None
    /\ UNCHANGED download

\* True when handleMouseMove takes a drag branch (not the preview).
DragBranch(type) ==
    /\ image # NoImage
    /\ IsSome(dragging)
    /\ Val(dragging).type = type

DragMarker(pos) ==
    /\ DragBranch("marker")
    /\ LET data == [position |-> pos] IN
       Render(image, imageSize,
              updateMarkerMarkers(markers, Val(dragging).id, data),
              updateMarkerPaths(paths, Val(dragging).id, data),
              areas, activeTool, selectedElement, linkingState, drawingPathId, drawingArea)
    /\ UNCHANGED << dragging, clock >>

DragPathPoint(pos) ==
    /\ DragBranch("pathPoint")
    /\ LET path == Find(VisiblePaths, Val(dragging).id) IN
       Render(image, imageSize, markers,
              IF IsSome(path) /\ Val(dragging).pointIndex < Len(Val(path).points)
              THEN updatePath(paths, Val(path).id,
                       [points |-> [Val(path).points EXCEPT
                                       ![Val(dragging).pointIndex + 1] = pos]])
              ELSE paths,
              areas, activeTool, selectedElement, linkingState, drawingPathId, drawingArea)
    /\ UNCHANGED << dragging, clock >>

DragAreaCenter(pos) ==
    /\ DragBranch("areaCenter")
    /\ Render(image, imageSize, markers, paths,
              updateArea(areas, Val(dragging).id, [center |-> pos], imageSize),
              activeTool, selectedElement, linkingState, drawingPathId, drawingArea)
    /\ UNCHANGED << dragging, clock >>

DragAreaRadius(pos) ==
    /\ DragBranch("areaRadius")
    /\ LET area == Find(areas, Val(dragging).id) IN
       Render(image, imageSize, markers, paths,
              IF IsSome(area)
              THEN updateArea(areas, Val(area).id,
                       [radius |-> MathMax(Px(1), distance(Val(area).center, pos))],
                       imageSize)
              ELSE areas,
              activeTool, selectedElement, linkingState, drawingPathId, drawingArea)
    /\ UNCHANGED << dragging, clock >>

\* handleMouseUp, on mouse up and on mouse leave.
MouseUp ==
    /\ image # NoImage
    /\ dragging' = None
    /\ UNCHANGED << image, imageSize, loading, markers, paths, areas, activeTool,
                    selectedElement, linkingState, drawingPathId, drawingArea,
                    colorFilters, areaFilters, numberFilters, storage, clock >>
    /\ alert' = None
    /\ UNCHANGED download

(***************************************************************************)
(* Events: Sidebar                                                         *)
(***************************************************************************)
\* Position X / Position Y input of the selected marker; v is Number(value).
SidebarSetPosition(axis, v) ==
    /\ PointerFree
    /\ IsSome(Selected("marker", markers))
    /\ LET m == Val(Selected("marker", markers))
           n == IF IsFinite(v) THEN v ELSE 0
           data == [position |-> IF axis = "x" THEN Pt(n, m.position.y)
                                 ELSE Pt(m.position.x, n)]
       IN  Render(image, imageSize,
                  updateMarkerMarkers(markers, m.id, data),
                  updateMarkerPaths(paths, m.id, data),
                  areas, activeTool, selectedElement, linkingState, drawingPathId,
                  drawingArea)
    /\ UNCHANGED << dragging, clock >>

\* Color input of the selected marker.
SidebarSetColor(color) ==
    /\ PointerFree
    /\ IsSome(Selected("marker", markers))
    /\ LET m == Val(Selected("marker", markers))
           data == [color |-> color]
       IN  Render(image, imageSize,
                  updateMarkerMarkers(markers, m.id, data),
                  updateMarkerPaths(paths, m.id, data),
                  areas, activeTool, selectedElement, linkingState, drawingPathId,
                  drawingArea)
    /\ UNCHANGED << dragging, clock >>

\* Number input of the selected marker.
SidebarSetNumber(v) ==
    /\ PointerFree
    /\ IsSome(Selected("marker", markers))
    /\ Render(image, imageSize,
              updateMarkerMarkers(markers, Val(Selected("marker", markers)).id,
                                  [number |-> v]),
              paths, areas, activeTool, selectedElement, linkingState, drawingPathId,
              drawingArea)
    /\ UNCHANGED << dragging, clock >>

\* Area input of the selected marker.
SidebarSetArea(v) ==
    /\ PointerFree
    /\ IsSome(Selected("marker", markers))
    /\ Render(image, imageSize,
              updateMarkerMarkers(markers, Val(Selected("marker", markers)).id,
                                  [area |-> v]),
              paths, areas, activeTool, selectedElement, linkingState, drawingPathId,
              drawingArea)
    /\ UNCHANGED << dragging, clock >>

\* The tags the Sidebar offers as filter buttons: markers.map(m => m[field])
\* .filter(Boolean).
UniqueTags(ms, field) ==
    {ms[i][field] : i \in 1..Len(ms)} \ {Undefined, ""}

\* { ...prev, [key]: value }
WithKey(filters, key, value) ==
    [k \in DOMAIN filters \cup {key} |-> IF k = key THEN value ELSE filters[k]]

\* A filter button changes one filter map; of the effects of App only the
\* deselection depends on it.
SetFilters(cf, af, nf) ==
    /\ colorFilters' = cf
    /\ areaFilters' = af
    /\ numberFilters' = nf
    /\ selectedElement' = DeselectIfFiltered(selectedElement, markers, cf)
    /\ alert' = None
    /\ UNCHANGED download
    /\ UNCHANGED << image, imageSize, loading, markers, paths, areas, activeTool,
                    linkingState, drawingPathId, drawingArea, dragging, storage, clock >>

\* "By Color" button: [color]: !prev[color]
ToggleColorFilter(color) ==
    /\ PointerFree
    /\ color \in {ColorOf(markers[i]) : i \in 1..Len(markers)}
    /\ SetFilters(WithKey(colorFilters, color,
                          ~(color \in DOMAIN colorFilters /\ colorFilters[color])),
                  areaFilters, numberFilters)

\* "By Area" button: [area]: prev[area] === false ? true : false
ToggleAreaFilter(area) ==
    /\ PointerFree
    /\ area \in UniqueTags(markers, "area")
    /\ SetFilters(colorFilters, WithKey(areaFilters, area, IsFalse(areaFilters, area)),
                  numberFilters)

\* "By Number" button: [num]: prev[num] === false ? true : false
ToggleNumberFilter(num) ==
    /\ PointerFree
    /\ num \in UniqueTags(markers, "number")
    /\ SetFilters(colorFilters, areaFilters,
                  WithKey(numberFilters, num, IsFalse(numberFilters, num)))

\* "Link" button of the selected marker.
StartLinking ==
    /\ PointerFree
    /\ IsSome(Selected("marker", markers))
    /\ Render(image, imageSize, markers, paths, areas, "select", selectedElement,
              Some([fromMarkerId |-> Val(Selected("marker", markers)).id]),
              drawingPathId, drawingArea)
    /\ UNCHANGED << dragging, clock >>

\* "Cancel" button shown while linking.
CancelLinking ==
    /\ PointerFree
    /\ IsSome(linkingState)
    /\ Render(image, imageSize, markers, paths, areas, activeTool, selectedElement,
              None, drawingPathId, drawingArea)
    /\ UNCHANGED << dragging, clock >>

\* "Remove link" button beside a linked marker of the selected marker.
RemoveLink(toMarkerId) ==
    /\ PointerFree
    /\ IsSome(Selected("marker", markers))
    /\ Includes(Val(Selected("marker", markers)).linkedMarkerIds, toMarkerId)
    /\ LET r == handleRemoveLink(markers, paths, Val(Selected("marker", markers)).id,
                                 toMarkerId)
       IN  Render(image, imageSize, r.markers, r.paths, areas, activeTool,
                  selectedElement, linkingState, drawingPathId, drawingArea)
    /\ UNCHANGED << dragging, clock >>

\* Radius input of the selected area; v is Number(value).
SidebarSetRadius(v) ==
    /\ PointerFree
    /\ IsSome(Selected("area", areas))
    /\ Render(image, imageSize, markers, paths,
              updateArea(areas, Val(Selected("area", areas)).id,
                         [radius |-> IF IsFinite(v) THEN MathMax(Px(1), v) ELSE Px(1)],
                         imageSize),
              activeTool, selectedElement, linkingState, drawingPathId, drawingArea)
    /\ UNCHANGED << dragging, clock >>

\* Top-Left / Bottom-Right X / Y input of the selected area; v is Number(value).
SidebarSetCorner(corner, axis, v) ==
    /\ PointerFree
    /\ IsSome(Selected("area", areas))
    /\ LET a == Val(Selected("area", areas))
           base == a[corner]
           n == IF IsFinite(v) THEN v ELSE 0
           point == IF axis = "x" THEN Pt(n, base.y) ELSE Pt(base.x, n)
           data == IF corner = "topLeft" THEN [topLeft |-> point]
                   ELSE [bottomRight |-> point]
       IN  Render(image, imageSize, markers, paths,
                  updateArea(areas, a.id, data, imageSize),
                  activeTool, selectedElement, linkingState, drawingPathId, drawingArea)
    /\ UNCHANGED << dragging, clock >>

\* deleteSelected: the "Delete" button of the Sidebar, and Delete / Backspace.
\* deleteSelected without its final setSelectedElement(null).
DeleteSelectedKeepingSelection ==
    /\ IsSome(selectedElement)
    /\ LET sel == Val(selectedElement)
           m == deleteMarker(markers, paths, sel.id)
           p == deletePath(markers, paths, sel.id)
       IN  Render(image, imageSize,
                  IF sel.type = "marker" THEN m.markers
                  ELSE IF sel.type = "path" THEN p.markers ELSE markers,
                  IF sel.type = "marker" THEN m.paths
                  ELSE IF sel.type = "path" THEN p.paths ELSE paths,
                  IF sel.type = "area" THEN deleteArea(areas, sel.id) ELSE areas,
                  activeTool, selectedElement, linkingState, drawingPathId, drawingArea)
    /\ UNCHANGED << dragging, clock >>

DeleteSelected ==
    /\ IsSome(selectedElement)
    /\ LET sel == Val(selectedElement)
           m == deleteMarker(markers, paths, sel.id)
           p == deletePath(markers, paths, sel.id)
       IN  Render(image, imageSize,
                  IF sel.type = "marker" THEN m.markers
                  ELSE IF sel.type = "path" THEN p.markers ELSE markers,
                  IF sel.type = "marker" THEN m.paths
                  ELSE IF sel.type = "path" THEN p.paths ELSE paths,
                  IF sel.type = "area" THEN deleteArea(areas, sel.id) ELSE areas,
                  activeTool, None, linkingState, drawingPathId, drawingArea)
    /\ UNCHANGED << dragging, clock >>

(***************************************************************************)
(* Events: keyboard                                                        *)
(***************************************************************************)
\* The Escape handler without its setSelectedElement(null).
KeyEscapeKeepingSelection ==
    /\ Render(image, imageSize, markers, paths, areas, activeTool, selectedElement, None,
              None, None)
    /\ UNCHANGED << dragging, clock >>

\* An Escape that discards the area being drawn.
KeyEscapeDiscardingDrawnArea ==
    /\ Render(image, imageSize, markers, paths,
              IF IsSome(drawingArea) THEN deleteArea(areas, Val(drawingArea).id) ELSE areas,
              activeTool, None, None, None, None)
    /\ UNCHANGED << dragging, clock >>

KeyEscape ==
    /\ Render(image, imageSize, markers, paths, areas, activeTool, None, None, None, None)
    /\ UNCHANGED << dragging, clock >>

KeyEnter ==
    /\ Render(image, imageSize, markers, paths, areas, activeTool, selectedElement,
              linkingState, drawingPathId, None)
    /\ UNCHANGED << dragging, clock >>

(***************************************************************************)
(* Events: files, image decoding                                           *)
(***************************************************************************)
\* The image upload without its resets of the selection and of the link.
UploadImageKeepingSelection(img) ==
    /\ PointerFree
    /\ Render(img, None, << >>, << >>, << >>, activeTool, selectedElement, linkingState,
              None, None)
    /\ dragging' = IF image = NoImage THEN None ELSE dragging
    /\ UNCHANGED clock

\* handleFileUpload, image branch (reader.onload).
UploadImage(img) ==
    /\ PointerFree
    /\ Render(img, None, << >>, << >>, << >>, activeTool, None, None, None, None)
    /\ dragging' = IF image = NoImage THEN None ELSE dragging
    /\ UNCHANGED clock

\* A JSON value that is not an array (an object, a string, a number): a
\* function that is not a sequence.
NotAnArray == [k \in {0} |-> "object"]

\* Array.isArray(plan[field]): a missing field is undefined.
IsArray(plan, field) ==
    /\ field \in DOMAIN plan
    /\ \A k \in DOMAIN plan[field] : k >= 1

InvalidPlan == "Invalid plan file format."
UnreadablePlan == "Could not read the plan file. It may be corrupted."

\* The import with a rejection that drops the selection.
ImportPlanClearingSelection(plan) ==
    /\ PointerFree
    /\ IF "image" \in DOMAIN plan /\ plan.image # NoImage
          /\ IsArray(plan, "markers") /\ IsArray(plan, "paths")
       THEN /\ Render(plan.image, imageSize, plan.markers, plan.paths,
                      normalizeAreas(IF "areas" \in DOMAIN plan THEN plan.areas ELSE << >>),
                      activeTool, None, None, None, None)
            /\ dragging' = IF image = NoImage THEN None ELSE dragging
       ELSE /\ alert' = Some(InvalidPlan)
            /\ UNCHANGED download
            /\ selectedElement' = None
            /\ UNCHANGED << image, imageSize, loading, markers, paths, areas, activeTool,
                            linkingState, drawingPathId, drawingArea,
                            dragging, colorFilters, areaFilters, numberFilters, storage >>
    /\ UNCHANGED clock

\* handleFileUpload, JSON branch (reader.onload) for a parsed plan: a record
\* whose image, markers, paths and areas fields may each be missing.
ImportPlan(plan) ==
    /\ PointerFree
    /\ IF "image" \in DOMAIN plan /\ plan.image # NoImage
          /\ IsArray(plan, "markers") /\ IsArray(plan, "paths")
       THEN /\ Render(plan.image, imageSize, plan.markers, plan.paths,
                      normalizeAreas(IF "areas" \in DOMAIN plan THEN plan.areas ELSE << >>),
                      activeTool, None, None, None, None)
            /\ dragging' = IF image = NoImage THEN None ELSE dragging
       ELSE /\ alert' = Some(InvalidPlan)
            /\ UNCHANGED download
            /\ UNCHANGED << image, imageSize, loading, markers, paths, areas, activeTool,
                            selectedElement, linkingState, drawingPathId, drawingArea,
                            dragging, colorFilters, areaFilters, numberFilters, storage >>
    /\ UNCHANGED clock

\* handleFileUpload, JSON branch, when JSON.parse (or the destructuring of its
\* result) throws.
ImportUnreadable ==
    /\ PointerFree
    /\ alert' = Some(UnreadablePlan)
    /\ UNCHANGED download
    /\ UNCHANGED state

\* handleExportPlan followed by handleFileUpload of the file it wrote.
ExportThenImport ==
    /\ image # NoImage
    /\ ImportPlan(JsonSnapshot(image, markers, paths, areas))

NothingToExport == "No markers or areas to export."

\* handleExportLua, at the time now.
ExportLua(now) ==
    /\ PointerFree
    /\ IF image = NoImage /\ Len(markers) = 0 /\ Len(areas) = 0
       THEN /\ alert' = Some(NothingToExport)
            /\ UNCHANGED download
       ELSE /\ alert' = None
            /\ download' = Some(LuaText(markers, areas, now))
    /\ UNCHANGED state

\* handleResetWorkspace
ResetWorkspace ==
    /\ PointerFree
    /\ RenderState(NoImage, None, << >>, << >>, << >>, activeTool, None, None, None, None)
    /\ storage' = None
    /\ dragging' = None
    /\ UNCHANGED clock

\* loadImage settles: the decode of the image being loaded succeeds (then the
\* effect on imageSize re-clamps the areas) or fails.
DecodeDone ==
    /\ loading # NoImage
    /\ LET size == IF loading # "corrupt" THEN Some(SizeOf(loading)) ELSE None
           as == IF IsSome(size) THEN ReclampAreas(areas, size) ELSE areas
       IN  /\ imageSize' = size
           /\ areas' = as
           /\ storage' = SaveEffect(image, markers, paths, as, storage)
    /\ loading' = NoImage
    /\ UNCHANGED << image, markers, paths, activeTool, selectedElement, linkingState,
                    drawingPathId, drawingArea, dragging, colorFilters, areaFilters,
                    numberFilters, clock >>
    /\ alert' = None
    /\ UNCHANGED download

(***************************************************************************)
(* Inputs                                                                  *)
(***************************************************************************)
\* Pointer positions used while editing markers and paths.
LinkPoints == {Pt(0, 0), Pt(Px(2), 0)}
\* Values typed into a marker's position inputs.
PositionInputs == {0}

\* Pointer positions used while editing areas (imgA is 4 x 4 pixels).
AreaPoints == {Pt(0, 0), Pt(Px(4), Px(2))}
\* Values typed into an area's radius input.
RadiusInputs == {-Px(1), Px(3), NaN}
\* Values typed into an area's corner inputs.
CornerInputs == {Px(4)}

\* Raw area entries of imported plans.
RawCircle == [id |-> 101, name |-> "A", center |-> Pt(Px(2), Px(2)), radius |-> Px(1)]
RawSmallCircle == [id |-> 102, name |-> "B", center |-> Pt(Px(1), Px(1)), radius |-> 0]
RawInfiniteCircle ==
    [id |-> 103, name |-> "C", center |-> Pt(Px(2), Px(2)), radius |-> PosInf]
RawBounds == [id |-> 104, topLeft |-> Pt(0, 0), bottomRight |-> Pt(Px(4), Px(2))]
RawInfiniteBounds ==
    [id |-> 105, topLeft |-> Pt(PosInf, 0), bottomRight |-> Pt(PosInf, Px(2))]
RawPolygon == [name |-> "P", points |-> << Pt(0, 0), Pt(Px(4), 0), Pt(0, Px(4)) >>]
RawUnknown == [id |-> 107, name |-> "U", radius |-> Px(2)]
RawAreaLists ==
    { << RawCircle >>, << RawSmallCircle, RawUnknown >>, << RawInfiniteBounds >>,
      << RawPolygon >> }

\* Plans imported while editing areas.
AreaPlans ==
    {[image |-> "imgA", markers |-> << >>, paths |-> << >>, areas |-> raw] :
        raw \in RawAreaLists}

\* Pointer positions used while adding markers.
MarkerPoints == {Pt(0, 0), Pt(Px(100), Px(50))}

\* Pointer positions used while drawing an area: a centre and a point 50
\* pixels from it, outside imgA, and two points inside imgA.
GesturePoints == {Pt(Px(200), Px(200)), Pt(Px(230), Px(240)), Pt(Px(2), Px(2)), Pt(Px(2), Px(3))}

\* Values typed into a marker's area and number inputs.
AreaInputs == {"north"}
NumberInputs == {""}

\* A plan with two linked markers of different colours, the path of their
\* link and a path drawn by hand.
PlanMarkerA ==
    [id |-> 11, number |-> "7", name |-> "Gate", area |-> "north",
     position |-> Pt(0, 0), status |-> "pending", linkedMarkerIds |-> << 12 >>,
     color |-> "#ef4444"]
PlanMarkerB ==
    [id |-> 12, number |-> "", name |-> "Yard", area |-> Undefined,
     position |-> Pt(Px(2), 0), status |-> "pending", linkedMarkerIds |-> << >>,
     color |-> ""]
PlanLink ==
    [id |-> 13, points |-> << Pt(0, 0), Pt(Px(2), 0) >>,
     linkedMarkers |-> Some([startId |-> 11, endId |-> 12]), color |-> "#ef4444"]
PlanFreehand ==
    [id |-> 14, points |-> << Pt(0, 0), Pt(Px(2), 0) >>, linkedMarkers |-> None,
     color |-> PathColor]
FilterPlan ==
    [image |-> "imgA", markers |-> << PlanMarkerA, PlanMarkerB >>,
     paths |-> << PlanLink, PlanFreehand >>, areas |-> << >>]

\* Plan files that parse but lack a usable image, markers array or paths
\* array: a missing field, an empty image, an object in place of an array.
MalformedPlans ==
    { [markers |-> FilterPlan.markers, paths |-> FilterPlan.paths],
      [image |-> "", markers |-> FilterPlan.markers, paths |-> FilterPlan.paths],
      [image |-> "imgA", paths |-> FilterPlan.paths],
      [image |-> "imgA", markers |-> NotAnArray, paths |-> FilterPlan.paths],
      [image |-> "imgA", markers |-> FilterPlan.markers, paths |-> NotAnArray] }

\* Raw area entries of every shape, of mixed shapes and of no shape.
LegacyTriangle ==
    [id |-> 201, name |-> "T", points |-> << Pt(0, 0), Pt(Px(10), 0), Pt(0, Px(10)) >>]
RawCircleAndBounds ==
    [id |-> 202, name |-> "CB", center |-> Pt(Px(2), Px(2)), radius |-> Px(3),
     topLeft |-> Pt(0, 0), bottomRight |-> Pt(Px(4), Px(2))]
RawBoundsBadCenter ==
    [id |-> 203, center |-> Pt(JNull, Px(1)), radius |-> Px(2),
     topLeft |-> Pt(Px(2), 0), bottomRight |-> Pt(Px(6), Px(6))]
RawBoundsAndPoints ==
    [name |-> "BP", topLeft |-> Pt(0, 0), bottomRight |-> Pt(Px(2), Px(2)),
     points |-> << Pt(Px(8), Px(8)) >>]
RawInvalidPolygon == [id |-> 204, points |-> << Pt(JNull, 0), Pt(0, JNull) >>]
RawEmptyPolygon == [id |-> 205, name |-> "E", points |-> << >>]
RawHalfBounds == [id |-> 206, topLeft |-> Pt(0, 0)]
RawEntries ==
    { LegacyTriangle, RawCircle, RawBounds, RawPolygon, RawUnknown, RawCircleAndBounds,
      RawBoundsBadCenter, RawBoundsAndPoints, RawInvalidPolygon, RawEmptyPolygon,
      RawHalfBounds }

\* Plans whose areas field is a list of up to two raw entries, is not an array,
\* or is missing.
NormalizePlans ==
    {[image |-> "imgA", markers |-> << >>, paths |-> << >>, areas |-> raw] :
        raw \in {<< >>} \cup {<< e >> : e \in RawEntries}
                \cup {<< e, f >> : e \in RawEntries, f \in RawEntries}}
    \cup {[image |-> "imgA", markers |-> << >>, paths |-> << >>, areas |-> NotAnArray],
          [image |-> "imgA", markers |-> << >>, paths |-> << >>]}

(***************************************************************************)
(* Specifications                                                          *)
(***************************************************************************)
\* Editing markers, paths and links on a loaded map.
NextLink ==
    \/ image = NoImage /\ UploadImage("imgA")
    \/ \E tool \in {"select", "marker"} : SetActiveTool(tool)
    \/ MouseDownWhileLinking
    \/ MouseDownSelect
    \/ \E pos \in LinkPoints : AddMarker(pos)
    \/ \E id \in Ids(markers) : MarkerMouseDown(id)
    \/ \E id \in Ids(markers) : MarkerClick(id)
    \/ \E id \in Ids(paths) : PathClick(id)
    \/ \E index \in 0..(MaxPathLen - 1) : PathPointMouseDown(index)
    \/ \E index \in 0..(MaxPathLen - 2), pos \in LinkPoints : MidHandleMouseDown(index, pos)
    \/ MouseMoveIdle
    \/ \E pos \in LinkPoints : DragMarker(pos)
    \/ \E pos \in LinkPoints : DragPathPoint(pos)
    \/ MouseUp
    \/ \E axis \in {"x", "y"}, v \in PositionInputs : SidebarSetPosition(axis, v)
    \/ \E color \in Colors : SidebarSetColor(color)
    \/ StartLinking
    \/ CancelLinking
    \/ \E id \in Ids(markers) : RemoveLink(id)
    \/ DeleteSelected
    \/ KeyEscape

SpecLink == Init /\ [][NextLink]_vars

\* Editing areas on a loaded map, importing and exporting plans.
NextArea ==
    \/ image = NoImage /\ UploadImage("imgA")
    \/ DecodeDone
    \/ \E tool \in {"select", "area"} : SetActiveTool(tool)
    \/ MouseDownSelect
    \/ \E pos \in AreaPoints : AddAreaPoint(pos)
    \/ \E id \in Ids(areas) : AreaClick(id)
    \/ \E type \in {"areaCenter", "areaRadius"} : AreaHandleMouseDown(type)
    \/ \E pos \in AreaPoints : PreviewArea(pos)
    \/ MouseMoveIdle
    \/ \E pos \in AreaPoints : DragAreaCenter(pos)
    \/ \E pos \in AreaPoints : DragAreaRadius(pos)
    \/ MouseUp
    \/ \E v \in RadiusInputs : SidebarSetRadius(v)
    \/ \E axis \in {"x", "y"}, v \in CornerInputs : SidebarSetCorner("bottomRight", axis, v)
    \/ DeleteSelected
    \/ KeyEscape
    \/ KeyEnter
    \/ \E plan \in AreaPlans : ImportPlan(plan)
    \/ ExportThenImport
    \/ ResetWorkspace

SpecArea == Init /\ [][NextArea]_vars

\* Tagging the markers of an imported plan and filtering them by colour, area
\* and number.
NextFilter ==
    \/ ImportPlan(FilterPlan)
    \/ \E id \in Ids(markers) : MarkerClick(id)
    \/ \E id \in Ids(paths) : PathClick(id)
    \/ \E color \in Colors : SidebarSetColor(color)
    \/ \E v \in NumberInputs : SidebarSetNumber(v)
    \/ \E v \in AreaInputs : SidebarSetArea(v)
    \/ \E color \in Colors : ToggleColorFilter(color)
    \/ \E area \in AreaInputs : ToggleAreaFilter(area)
    \/ \E num \in {PlanMarkerA.number} : ToggleNumberFilter(num)
    \/ StartLinking
    \/ CancelLinking
    \/ DeleteSelected
    \/ ResetWorkspace

SpecFilter == Init /\ [][NextFilter]_vars

\* Adding, recolouring and deleting markers while filtering by colour.
NextColor ==
    \/ image = NoImage /\ UploadImage("imgA")
    \/ \E tool \in {"select", "marker"} : SetActiveTool(tool)
    \/ MouseDownWhileLinking
    \/ \E pos \in MarkerPoints : AddMarker(pos)
    \/ \E id \in Ids(markers) : MarkerClick(id)
    \/ \E color \in Colors : SidebarSetColor(color)
    \/ \E color \in Colors : ToggleColorFilter(color)
    \/ StartLinking
    \/ CancelLinking
    \/ DeleteSelected
    \/ ImportPlan(FilterPlan)
    \/ ResetWorkspace

SpecColor == Init /\ [][NextColor]_vars

\* Creating, selecting and deleting elements of every type, and replacing the
\* workspace by a file.
NextSelect ==
    \/ UploadImage("imgA")
    \/ \E tool \in Tools : SetActiveTool(tool)
    \/ MouseDownWhileLinking
    \/ MouseDownSelect
    \/ AddMarker(Pt(0, 0))
    \/ AddPathPoint(Pt(0, 0))
    \/ AddAreaPoint(Pt(0, 0))
    \/ \E id \in Ids(markers) : MarkerClick(id)
    \/ \E id \in Ids(paths) : PathClick(id)
    \/ \E id \in Ids(areas) : AreaClick(id)
    \/ StartLinking
    \/ CancelLinking
    \/ \E id \in Ids(markers) : RemoveLink(id)
    \/ DeleteSelected
    \/ KeyEscape
    \/ KeyEnter
    \/ ImportPlan(FilterPlan)
    \/ ResetWorkspace

SpecSelect == Init /\ [][NextSelect]_vars

\* Loading plan files, well-formed or not, into a workspace that holds markers,
\* links, a selection and filters.
NextImport ==
    \/ image = NoImage /\ UploadImage("imgA")
    \/ DecodeDone
    \/ \E tool \in {"select", "marker"} : SetActiveTool(tool)
    \/ AddMarker(Pt(0, 0))
    \/ \E id \in Ids(markers) : MarkerClick(id)
    \/ \E color \in Colors : ToggleColorFilter(color)
    \/ StartLinking
    \/ DeleteSelected
    \/ ImportPlan(FilterPlan)
    \/ \E plan \in MalformedPlans : ImportPlan(plan)
    \/ ImportUnreadable
    \/ ResetWorkspace

SpecImport == Init /\ [][NextImport]_vars

\* Drawing areas with two clicks.
NextGesture ==
    \/ image = NoImage /\ UploadImage("imgA")
    \/ DecodeDone
    \/ \E tool \in {"select", "area"} : SetActiveTool(tool)
    \/ MouseDownSelect
    \/ \E pos \in GesturePoints : AddAreaPoint(pos)
    \/ \E pos \in GesturePoints : PreviewArea(pos)
    \/ \E id \in Ids(areas) : AreaClick(id)
    \/ DeleteSelected
    \/ KeyEscape
    \/ KeyEnter
    \/ ResetWorkspace

SpecGesture == Init /\ [][NextGesture]_vars

\* Importing plans whose areas are written in the current and the legacy
\* formats.
NextNormalize ==
    \/ image = NoImage /\ UploadImage("imgA")
    \/ DecodeDone
    \/ \E plan \in NormalizePlans : ImportPlan(plan)
    \/ ExportThenImport
    \/ ResetWorkspace

SpecNormalize == Init /\ [][NextNormalize]_vars

\* Drawing paths by hand among imported markers and paths, with every event
\* that ends the drawing.
NextDraw ==
    \/ UploadImage("imgA")
    \/ \E tool \in {"select", "path"} : SetActiveTool(tool)
    \/ MouseDownWhileLinking
    \/ MouseDownSelect
    \/ \E pos \in LinkPoints : AddPathPoint(pos)
    \/ \E id \in Ids(markers) : MarkerClick(id)
    \/ \E id \in Ids(paths) : PathClick(id)
    \/ StartLinking
    \/ CancelLinking
    \/ DeleteSelected
    \/ KeyEscape
    \/ ImportPlan(FilterPlan)
    \/ ResetWorkspace

SpecDraw == Init /\ [][NextDraw]_vars

\* Pressing, moving and releasing the pointer over the markers, the handles
\* of the selected path or area, and the background, with each tool.
NextDrag ==
    \/ image = NoImage /\ ImportPlan(FilterPlan)
    \/ \E tool \in {"select", "area"} : SetActiveTool(tool)
    \/ MouseDownSelect
    \/ AddAreaPoint(Pt(0, 0))
    \/ \E id \in Ids(markers) : MarkerMouseDown(id)
    \/ \E id \in Ids(paths) : PathClick(id)
    \/ \E id \in Ids(areas) : AreaClick(id)
    \/ \E index \in 0..(MaxPathLen - 1) : PathPointMouseDown(index)
    \/ \E index \in 0..(MaxPathLen - 2), pos \in LinkPoints : MidHandleMouseDown(index, pos)
    \/ AreaHandleMouseDown("areaCenter")
    \/ PreviewArea(Pt(Px(2), 0))
    \/ MouseMoveIdle
    \/ \E pos \in LinkPoints : DragMarker(pos)
    \/ \E pos \in LinkPoints : DragPathPoint(pos)
    \/ \E pos \in LinkPoints : DragAreaCenter(pos)
    \/ MouseUp
    \/ DeleteSelected
    \/ KeyEscape

SpecDrag == Init /\ [][NextDrag]_vars

\* Times at which an export is taken.
ExportTimes == {1, 2}

\* Placing markers and areas, and exporting them as a Lua table.
NextExport ==
    \/ image = NoImage /\ UploadImage("imgA")
    \/ \E tool \in {"select", "marker", "area"} : SetActiveTool(tool)
    \/ \E pos \in MarkerPoints : AddMarker(pos)
    \/ \E pos \in MarkerPoints : AddAreaPoint(pos)
    \/ \E now \in ExportTimes : ExportLua(now)
    \/ ResetWorkspace

SpecExport == Init /\ [][NextExport]_vars

\* Selecting and deleting the elements of an imported plan that holds linked
\* markers, paths and two areas, one named like the area tag of a marker.
NextErase ==
    \/ image = NoImage
       /\ ImportPlan([FilterPlan EXCEPT
                         !.areas = << [RawCircle EXCEPT !.name = PlanMarkerA.area],
                                      RawBounds >>])
    \/ DecodeDone
    \/ MouseDownSelect
    \/ \E id \in Ids(markers) : MarkerClick(id)
    \/ \E id \in Ids(paths) : PathClick(id)
    \/ \E id \in Ids(areas) : AreaClick(id)
    \/ DeleteSelected
    \/ ResetWorkspace

SpecErase == Init /\ [][NextErase]_vars

\* Editing markers on an image that fits the storage quota and on one that
\* does not.
NextQuota ==
    \/ \E img \in {"imgA", "imgHuge"} : UploadImage(img)
    \/ \E tool \in {"select", "marker"} : SetActiveTool(tool)
    \/ \E pos \in MarkerPoints : AddMarker(pos)
    \/ \E id \in Ids(markers) : MarkerClick(id)
    \/ \E color \in Colors : SidebarSetColor(color)
    \/ DeleteSelected
    \/ ResetWorkspace

SpecQuota == Init /\ [][NextQuota]_vars

\* Events that change the editing state only (keys, tools, linking, selection,
\* filters), on an imported plan and while an area is drawn.
NextFrame ==
    \/ image = NoImage /\ ImportPlan(FilterPlan)
    \/ \E tool \in {"select", "area"} : SetActiveTool(tool)
    \/ AddAreaPoint(Pt(0, 0))
    \/ PreviewArea(Pt(Px(2), 0))
    \/ MouseDownSelect
    \/ \E id \in Ids(markers) : MarkerClick(id)
    \/ \E id \in Ids(paths) : PathClick(id)
    \/ \E id \in Ids(areas) : AreaClick(id)
    \/ StartLinking
    \/ CancelLinking
    \/ \E color \in Colors : ToggleColorFilter(color)
    \/ \E area \in AreaInputs : ToggleAreaFilter(area)
    \/ ToggleNumberFilter(PlanMarkerA.number)
    \/ KeyEscape
    \/ KeyEnter

SpecFrame == Init /\ [][NextFrame]_vars

\* Replacing the image, by upload and by the import of a plan, while images
\* decode and areas are drawn.
NextDecode ==
    \/ \E img \in {"imgA", "imgB"} : UploadImage(img)
    \/ ImportPlan([FilterPlan EXCEPT !.image = "imgB", !.areas = << RawCircle >>])
    \/ DecodeDone
    \/ \E tool \in {"select", "area"} : SetActiveTool(tool)
    \/ \E pos \in AreaPoints : AddAreaPoint(pos)
    \/ \E id \in Ids(areas) : AreaClick(id)
    \/ DeleteSelected
    \/ ResetWorkspace

SpecDecode == Init /\ [][NextDecode]_vars

\* Drawing paths by hand.
NextPath ==
    \/ SetActiveTool("path")
    \/ \E pos \in LinkPoints : AddPathPoint(pos)
    \/ KeyEnter

\* The whole editor.
Next == NextLink \/ NextArea \/ NextPath

Spec == Init /\ [][Next]_vars

(***************************************************************************)
(* Properties of links between markers, under SpecLink                     *)
(***************************************************************************)
\* The markers other than id, each with id taken out of its link list.
MarkersAfterDeleting(ms, id) ==
    LET Other(m) == m.id # id
        NotId(x) == x # id
    IN  [i \in 1..Len(SelectSeq(ms, Other)) |->
            [SelectSeq(ms, Other)[i] EXCEPT !.linkedMarkerIds = SelectSeq(@, NotId)]]

\* The paths that are not a link from or to marker id.
PathsNotReferencing(ps, id) ==
    LET Free(p) == ~IsSome(p.linkedMarkers)
                   \/ (Val(p.linkedMarkers).startId # id /\ Val(p.linkedMarkers).endId # id)
    IN  SelectSeq(ps, Free)

\* ms with toId taken out of the link list of marker fromId only.
MarkersAfterUnlinking(ms, fromId, toId) ==
    LET NotTo(x) == x # toId
    IN  [i \in 1..Len(ms) |->
            IF ms[i].id = fromId
            THEN [ms[i] EXCEPT !.linkedMarkerIds = SelectSeq(@, NotTo)]
            ELSE ms[i]]

\* The paths that are not a link from fromId to toId.
PathsWithoutLink(ps, fromId, toId) ==
    LET Other(p) == ~IsSome(p.linkedMarkers)
                    \/ Val(p.linkedMarkers) # [startId |-> fromId, endId |-> toId]
    IN  SelectSeq(ps, Other)

\* C1: in every state reached by editing gestures, every path that links two
\* markers starts at the current position of its start marker and ends at the
\* current position of its end marker.
LinkedPathsFollowMarkers ==
    \A i \in 1..Len(paths) :
        IsSome(paths[i].linkedMarkers) =>
            LET link == Val(paths[i].linkedMarkers)
                points == paths[i].points
            IN  /\ \A j \in 1..Len(markers) :
                       markers[j].id = link.startId => points[1] = markers[j].position
                /\ \A j \in 1..Len(markers) :
                       markers[j].id = link.endId => points[Len(points)] = markers[j].position

\* A marker that ends a link with an inserted middle point is being dragged,
\* and the link's two markers are at different positions.
WitnessLinkedPathsFollowMarkers ==
    \E i \in 1..Len(paths) :
        /\ IsSome(paths[i].linkedMarkers)
        /\ Len(paths[i].points) = 3
        /\ paths[i].points[1] # paths[i].points[3]
        /\ IsSome(dragging)
        /\ Val(dragging).type = "marker"
        /\ Val(dragging).id = Val(paths[i].linkedMarkers).endId
        /\ Val(dragging).id \in Ids(markers)

\* C2: deleteSelected with marker M selected removes M, takes M out of every
\* link list and removes every path that links from or to M; the other markers
\* and the paths that do not reference M are kept as they were.
DeleteMarkerRemovesItsLinks ==
    [][(DeleteSelected /\ IsSome(Selected("marker", markers))) =>
          LET M == Val(selectedElement).id
          IN  /\ M \notin Ids(markers')
              /\ \A i \in 1..Len(markers') : ~Includes(markers'[i].linkedMarkerIds, M)
              /\ \A i \in 1..Len(paths') :
                     IsSome(paths'[i].linkedMarkers) =>
                         /\ Val(paths'[i].linkedMarkers).startId # M
                         /\ Val(paths'[i].linkedMarkers).endId # M
              /\ markers' = MarkersAfterDeleting(markers, M)
              /\ paths' = PathsNotReferencing(paths, M)]_vars

\* The selected marker is linked from the other marker and links back to it.
WitnessDeleteMarkerRemovesItsLinks ==
    /\ IsSome(Selected("marker", markers))
    /\ Len(markers) = 2
    /\ \E i \in 1..Len(markers) :
           /\ markers[i].id # Val(selectedElement).id
           /\ Includes(markers[i].linkedMarkerIds, Val(selectedElement).id)
    /\ \E i, j \in 1..Len(paths) :
           /\ IsSome(paths[i].linkedMarkers)
           /\ IsSome(paths[j].linkedMarkers)
           /\ Val(paths[i].linkedMarkers).startId = Val(selectedElement).id
           /\ Val(paths[j].linkedMarkers).endId = Val(selectedElement).id

\* C3: in every state reached by editing gestures, every id in a link list is
\* the id of an existing marker, and every linked path starts and ends at two
\* different existing markers.
NoDanglingReferences ==
    /\ \A i \in 1..Len(markers) :
           \A k \in 1..Len(markers[i].linkedMarkerIds) :
               markers[i].linkedMarkerIds[k] \in Ids(markers)
    /\ \A i \in 1..Len(paths) :
           IsSome(paths[i].linkedMarkers) =>
               /\ Val(paths[i].linkedMarkers).startId \in Ids(markers)
               /\ Val(paths[i].linkedMarkers).endId \in Ids(markers)
               /\ Val(paths[i].linkedMarkers).startId # Val(paths[i].linkedMarkers).endId

\* Two markers are linked after an earlier marker was deleted: one of the two
\* has an id later than the second marker ever created.
WitnessNoDanglingReferences ==
    /\ Len(markers) = 2
    /\ \E i \in 1..Len(markers) : markers[i].id > 2
    /\ \E i \in 1..Len(markers) : markers[i].linkedMarkerIds # << >>
    /\ \E i \in 1..Len(paths) : IsSome(paths[i].linkedMarkers)

\* The click on marker b that completes a link started at another marker a
\* which does not link to b yet.
CompletesNewLink(a, b) ==
    /\ IsSome(linkingState)
    /\ Val(linkingState).fromMarkerId = a
    /\ a # b
    /\ a \in Ids(markers)
    /\ b \in Ids(markers)
    /\ ~Includes(Val(Find(markers, a)).linkedMarkerIds, b)
    /\ MarkerClick(b)

\* C4: completing a link from marker a to another marker b that a does not
\* link to yet appends b to a's link list and adds exactly one path, from a to b,
\* with the two markers' positions as its points and a's color; no other marker
\* and no other path changes.
LinkAddsOnePath ==
    [][\A a, b \in Ids(markers) :
          CompletesNewLink(a, b) =>
              LET from == Val(Find(markers, a))
                  to == Val(Find(markers, b))
              IN  /\ markers' =
                         [i \in 1..Len(markers) |->
                             IF markers[i].id = a
                             THEN [markers[i] EXCEPT
                                      !.linkedMarkerIds = Append(@, b)]
                             ELSE markers[i]]
                  /\ Len(paths') = Len(paths) + 1
                  /\ SubSeq(paths', 1, Len(paths)) = paths
                  /\ paths'[Len(paths')].linkedMarkers = Some([startId |-> a, endId |-> b])
                  /\ paths'[Len(paths')].points = << from.position, to.position >>
                  /\ paths'[Len(paths')].color = from.color]_vars

\* A link made from a recolored marker to a marker elsewhere: its path has the
\* new color and runs between two different positions.
WitnessLinkAddsOnePath ==
    \E i \in 1..Len(paths) :
        /\ IsSome(paths[i].linkedMarkers)
        /\ paths[i].color # DefaultColor
        /\ Len(paths[i].points) = 2
        /\ paths[i].points[1] # paths[i].points[2]

\* C5: handleLinkMarkers changes neither the markers nor the paths when asked
\* to link a marker to itself or to a marker it already links to, so linking a
\* to b twice in a row leaves what linking once leaves.
LinkIsIdempotent ==
    \A a, b \in Ids(markers) :
        LET same == [markers |-> markers, paths |-> paths]
            once == handleLinkMarkers(markers, paths, a, b, clock)
            twice == handleLinkMarkers(once.markers, once.paths, a, b, clock + 1)
        IN  /\ a = b => once = same
            /\ Includes(Val(Find(markers, a)).linkedMarkerIds, b) => once = same
            /\ twice = once

\* A link gesture is in progress from a marker that already links to the other
\* marker.
WitnessLinkIsIdempotent ==
    /\ IsSome(linkingState)
    /\ Len(markers) = 2
    /\ \E i \in 1..Len(markers) :
           /\ markers[i].id = Val(linkingState).fromMarkerId
           /\ markers[i].linkedMarkerIds # << >>

\* C6: removing the link from marker a to marker b, with the "remove link"
\* button of a or by deleting the selected path that links a to b, takes b out
\* of a's link list and removes the path from a to b; every other link list and
\* every other path is unchanged.
RemoveLinkRemovesItsPath ==
    [][/\ \A b \in Ids(markers) :
              RemoveLink(b) =>
                  LET a == Val(selectedElement).id
                  IN  /\ ~Includes(Val(Find(markers', a)).linkedMarkerIds, b)
                      /\ markers' = MarkersAfterUnlinking(markers, a, b)
                      /\ paths' = PathsWithoutLink(paths, a, b)
       /\ (/\ DeleteSelected
           /\ IsSome(Selected("path", paths))
           /\ IsSome(Val(Selected("path", paths)).linkedMarkers)) =>
              LET link == Val(Val(Selected("path", paths)).linkedMarkers)
              IN  /\ ~Includes(Val(Find(markers', link.startId)).linkedMarkerIds,
                               link.endId)
                  /\ markers' = MarkersAfterUnlinking(markers, link.startId, link.endId)
                  /\ paths' = PathsWithoutLink(paths, link.startId, link.endId)
                  /\ Val(selectedElement).id \notin Ids(paths')]_vars

\* A link with an inserted middle point is selected while the opposite link
\* exists as well.
WitnessRemoveLinkRemovesItsPath ==
    /\ IsSome(Selected("path", paths))
    /\ IsSome(Val(Selected("path", paths)).linkedMarkers)
    /\ Len(Val(Selected("path", paths)).points) = 3
    /\ Len(paths) = 2
    /\ \A i \in 1..Len(paths) : IsSome(paths[i].linkedMarkers)

(***************************************************************************)
(* Properties of areas, under SpecArea                                     *)
(***************************************************************************)
\* The box of an area.
BoxOf(a) == [topLeft |-> a.topLeft, bottomRight |-> a.bottomRight]

\* All numbers of an area are finite.
FiniteArea(a) ==
    /\ IsFinite(a.center.x) /\ IsFinite(a.center.y) /\ IsFinite(a.radius)
    /\ IsFinite(a.topLeft.x) /\ IsFinite(a.topLeft.y)
    /\ IsFinite(a.bottomRight.x) /\ IsFinite(a.bottomRight.y)

\* The box of an area is the box of its circle under the given image size.
BoxMatchesCircle(a, size) == BoxOf(a) = areaBoundsFromCircle(a.center, a.radius, size)

\* C7: after any mutation of the areas (addArea, updateArea, normalizeAreas on
\* import) every stored area has a radius of at least 1 pixel.
AreaRadiusAtLeastOne ==
    \A i \in 1..Len(areas) : NumGe(areas[i].radius, Px(1))

\* C8: in every reachable state in which the image size is known, the box of
\* every area is the bounding box of its circle clamped to the image, also
\* after an import made while the image size is known.
AreaBoxIsClampedCircleBox ==
    IsSome(imageSize) =>
        \A i \in 1..Len(areas) : BoxMatchesCircle(areas[i], imageSize)

\* C9: for every area with finite numbers whose box is the clamped box of its
\* circle, the bounding-box edit path of updateArea given the area's own
\* corner returns the same box, and given the box it returned returns that box
\* again.
BoxNormalizationIsIdempotent ==
    \A i \in 1..Len(areas) :
        (FiniteArea(areas[i]) /\ BoxMatchesCircle(areas[i], imageSize)) =>
            LET own == << areas[i] >>
                once == updateArea(own, own[1].id, [topLeft |-> own[1].topLeft], imageSize)
                twice == updateArea(once, once[1].id, [topLeft |-> once[1].topLeft],
                                    imageSize)
            IN  /\ BoxOf(once[1]) = BoxOf(own[1])
                /\ BoxOf(twice[1]) = BoxOf(once[1])

\* C10: exporting a workspace whose areas have finite numbers and importing
\* the exported file leaves the same markers, the same paths and the same areas.
ExportImportRoundTrip ==
    [][(ExportThenImport /\ \A i \in 1..Len(areas) : FiniteArea(areas[i])) =>
          /\ markers' = markers
          /\ paths' = paths
          /\ areas' = areas]_vars

(***************************************************************************)
(* Filters and selection                                                   *)
(***************************************************************************)
\* A filter map leaves a key visible unless it maps the key to FALSE.
NotSwitchedOff(filters, key) == key \notin DOMAIN filters \/ filters[key] # FALSE

\* The marker passes the colour, area and number filters of the state.
PassesFilters(m) ==
    /\ NotSwitchedOff(colorFilters, IF m.color \in {Undefined, ""} THEN "#10b981" ELSE m.color)
    /\ m.area \in {Undefined, ""} \/ NotSwitchedOff(areaFilters, m.area)
    /\ m.number \in {Undefined, ""} \/ NotSwitchedOff(numberFilters, m.number)

\* C11: a marker is drawn exactly when its colour (or '#10b981' when it has
\* none) is not switched off, and its area is empty or not switched off, and
\* its number is empty or not switched off; a key absent from a filter map
\* counts as visible.
MarkerVisibleIffNoFilterHidesIt ==
    /\ \A i \in 1..Len(markers) : Includes(VisibleMarkers, markers[i]) <=> PassesFilters(markers[i])
    /\ \A i \in 1..Len(VisibleMarkers) : Includes(markers, VisibleMarkers[i])

\* One marker is hidden by the number filter alone while its area has no key in
\* the area filters, and another marker is drawn.
WitnessMarkerVisibleIffNoFilterHidesIt ==
    /\ \E i \in 1..Len(markers) :
          /\ markers[i].number \in DOMAIN numberFilters
          /\ numberFilters[markers[i].number] = FALSE
          /\ markers[i].area = "north"
          /\ "north" \notin DOMAIN areaFilters
          /\ colorFilters[ColorOf(markers[i])] = TRUE
          /\ ~Includes(VisibleMarkers, markers[i])
    /\ Len(VisibleMarkers) = 1

\* Some marker with this id passes the filters.
MarkerShown(id) == \E i \in 1..Len(markers) : markers[i].id = id /\ PassesFilters(markers[i])

\* C12: a path without linkedMarkers is always drawn; a linked path is drawn
\* exactly when both of its end markers are drawn.
PathVisibleIffBothEndsVisible ==
    /\ \A i \in 1..Len(paths) :
          Includes(VisiblePaths, paths[i]) <=>
             \/ paths[i].linkedMarkers = None
             \/ /\ MarkerShown(Val(paths[i].linkedMarkers).startId)
                /\ MarkerShown(Val(paths[i].linkedMarkers).endId)
    /\ \A i \in 1..Len(VisiblePaths) : Includes(paths, VisiblePaths[i])

\* A link whose start marker is drawn and whose end marker is filtered out is
\* not drawn, while a path drawn by hand is.
WitnessPathVisibleIffBothEndsVisible ==
    /\ \E i \in 1..Len(paths) :
          /\ paths[i].linkedMarkers # None
          /\ MarkerShown(Val(paths[i].linkedMarkers).startId)
          /\ Val(paths[i].linkedMarkers).endId \in Ids(markers)
          /\ ~MarkerShown(Val(paths[i].linkedMarkers).endId)
          /\ ~Includes(VisiblePaths, paths[i])
    /\ \E i \in 1..Len(VisiblePaths) : VisiblePaths[i].linkedMarkers = None

\* The distinct colours of the markers, '#10b981' standing for a missing one.
MarkerColors(ms) ==
    {IF ms[i].color \in {Undefined, ""} THEN "#10b981" ELSE ms[i].color : i \in 1..Len(ms)}

\* C13: the keys of colorFilters are always the distinct colours of the
\* markers; a step that changes the markers adds each new colour with TRUE and
\* keeps the value of every colour that remains.
ColorFiltersFollowMarkers ==
    /\ [](DOMAIN colorFilters = MarkerColors(markers))
    /\ [][/\ \A c \in DOMAIN colorFilters' \ DOMAIN colorFilters : colorFilters'[c] = TRUE
          /\ markers' # markers =>
                \A c \in DOMAIN colorFilters' \cap DOMAIN colorFilters :
                   colorFilters'[c] = colorFilters[c]]_vars

\* The colour of an imported marker is switched off and a marker added by a
\* click has another colour, which is switched on.
WitnessColorFiltersFollowMarkers ==
    /\ Len(markers) = 2
    /\ markers[1].id = PlanMarkerA.id
    /\ markers[2].id <= MaxClock
    /\ ColorOf(markers[1]) # ColorOf(markers[2])
    /\ colorFilters[ColorOf(markers[1])] = FALSE
    /\ colorFilters[ColorOf(markers[2])] = TRUE

\* The collection a selection of the given type refers to.
ElementIds(type, ms, ps, as) ==
    IF type = "marker" THEN Ids(ms) ELSE IF type = "path" THEN Ids(ps)
    ELSE IF type = "area" THEN Ids(as) ELSE {}

\* C14: the selection, when present, names an existing marker, path or area
\* of its type, and it is cleared by every step that removes the element it
\* names.
SelectionReferencesExistingElement ==
    /\ [](IsSome(selectedElement) =>
             Val(selectedElement).id \in
                ElementIds(Val(selectedElement).type, markers, paths, areas))
    /\ [][(/\ IsSome(selectedElement)
           /\ Val(selectedElement).id \notin
                 ElementIds(Val(selectedElement).type, markers', paths', areas'))
          => selectedElement' = None]_vars

\* A link is selected while the workspace also holds its two markers and an
\* area.
WitnessSelectionReferencesExistingElement ==
    /\ IsSome(selectedElement)
    /\ Val(selectedElement).type = "path"
    /\ \E i \in 1..Len(paths) :
          paths[i].id = Val(selectedElement).id /\ IsSome(paths[i].linkedMarkers)
    /\ Len(markers) = 2
    /\ Len(areas) = 1

\* C15: a selected marker is among the markers that are drawn and a selected
\* path is among the paths that are drawn: a filter that hides the selected
\* element clears the selection.
SelectedElementIsVisible ==
    IsSome(selectedElement) =>
       /\ Val(selectedElement).type = "marker" =>
             \E i \in 1..Len(markers) :
                markers[i].id = Val(selectedElement).id /\ PassesFilters(markers[i])
       /\ Val(selectedElement).type = "path" =>
             \E i \in 1..Len(paths) :
                /\ paths[i].id = Val(selectedElement).id
                /\ \/ paths[i].linkedMarkers = None
                   \/ /\ MarkerShown(Val(paths[i].linkedMarkers).startId)
                      /\ MarkerShown(Val(paths[i].linkedMarkers).endId)

\* C16: an Escape key event, in any state and with any tool, leaves no link
\* in progress, no path in progress, no area in progress and no selection.
EscapeClearsEverything ==
    [][KeyEscape =>
          /\ linkingState' = None
          /\ drawingPathId' = None
          /\ drawingArea' = None
          /\ selectedElement' = None]_vars

\* With the area tool, an area that still has the radius of its first click is
\* neither in progress nor selected: the gesture was abandoned.
WitnessEscapeClearsEverything ==
    /\ activeTool = "area"
    /\ Len(areas) = 1
    /\ areas[1].radius = Px(1)
    /\ drawingArea = None
    /\ selectedElement = None
    /\ linkingState = None
    /\ drawingPathId = None

\* C17: importing a plan file that parses but has no image, an empty image,
\* or a markers or paths field that is not an array, or a file that does not
\* parse, shows an error and changes nothing of the workspace.
MalformedImportIsRejected ==
    [][((\E plan \in MalformedPlans : ImportPlan(plan)) \/ ImportUnreadable) =>
          /\ IsSome(alert')
          /\ image' = image /\ markers' = markers /\ paths' = paths /\ areas' = areas
          /\ selectedElement' = selectedElement /\ linkingState' = linkingState
          /\ drawingPathId' = drawingPathId /\ drawingArea' = drawingArea
          /\ UNCHANGED state]_vars

\* A malformed plan was refused while the workspace held two markers, a
\* link, a selection and a link in progress.
WitnessMalformedImportIsRejected ==
    /\ alert = Some(InvalidPlan)
    /\ Len(markers) = 2
    /\ Len(paths) >= 1
    /\ IsSome(selectedElement)
    /\ IsSome(linkingState)

(***************************************************************************)
(* Operations on elements that no longer exist                             *)
(***************************************************************************)
\* C18: an operation given the id of an element that does not exist signals
\* an error instead of doing nothing: completing a link whose origin marker
\* was deleted, and moving a marker that was deleted while it was dragged,
\* both end with an error shown.
DanglingReferenceIsSignalled ==
    [][/\ (/\ IsSome(linkingState)
           /\ Val(linkingState).fromMarkerId \notin Ids(markers)
           /\ \E id \in Ids(markers) : MarkerClick(id)) => IsSome(alert')
       /\ (/\ \E pos \in LinkPoints : DragMarker(pos)
           /\ Val(dragging).id \notin Ids(markers)) => IsSome(alert')]_vars

(***************************************************************************)
(* Gestures that create elements                                           *)
(***************************************************************************)
\* String(n) for the counts that occur.
Decimal(n) == << "1", "2", "3", "4" >>[n]

\* C19: with the marker tool and no link in progress, a click on the canvas at
\* p appends exactly one marker with position p, number String(count + 1),
\* name 'New Marker', status 'pending', colour '#10b981' and no links, and
\* changes no other marker, no path and no area; in an empty workspace a click
\* at (100, 50) gives one marker at (100, 50) with number "1". While a link is
\* in progress a click on the canvas adds nothing.
ClickAddsOneMarker ==
    [][/\ \A p \in MarkerPoints :
             AddMarker(p) =>
                /\ activeTool = "marker" /\ linkingState = None
                /\ Len(markers') = Len(markers) + 1
                /\ SubSeq(markers', 1, Len(markers)) = markers
                /\ markers'[Len(markers')].position = p
                /\ markers'[Len(markers')].number = Decimal(Len(markers) + 1)
                /\ markers'[Len(markers')].name = "New Marker"
                /\ markers'[Len(markers')].status = "pending"
                /\ markers'[Len(markers')].color = "#10b981"
                /\ markers'[Len(markers')].linkedMarkerIds = << >>
                /\ paths' = paths
                /\ areas' = areas
                /\ (markers = << >> /\ p = [x |-> Px(100), y |-> Px(50)]) =>
                      /\ Len(markers') = 1
                      /\ markers'[1].position = [x |-> Px(100), y |-> Px(50)]
                      /\ markers'[1].number = "1"
       /\ MouseDownWhileLinking => markers' = markers]_vars

\* A marker of an imported plan is followed by a marker made by the latest
\* click, at (100, 50) and numbered "2".
WitnessClickAddsOneMarker ==
    /\ Len(markers) = 2
    /\ markers[1].id = PlanMarkerA.id
    /\ markers[2].id = clock
    /\ markers[2].position = [x |-> Px(100), y |-> Px(50)]
    /\ markers[2].number = "2"

\* max(1, d) for a finite distance d.
AtLeastOnePixel(d) == IF d >= Px(1) THEN d ELSE Px(1)

\* C20: with the area tool, the first click at c appends exactly one area
\* with centre c and radius 1, selects it and records {id, center: c} as the
\* area in progress; the second click at q gives that area the radius
\* max(1, distance(c, q)) and the box of its circle, ends the gesture and adds
\* no area. Without an image size, centre (200, 200) and a second click 50
\* pixels away give radius 50 and the box (150, 150) - (250, 250).
TwoClicksMakeOneArea ==
    [][\A q \in GesturePoints :
          AddAreaPoint(q) =>
             IF drawingArea = None
             THEN /\ Len(areas') = Len(areas) + 1
                  /\ SubSeq(areas', 1, Len(areas)) = areas
                  /\ areas'[Len(areas')].center = q
                  /\ areas'[Len(areas')].radius = Px(1)
                  /\ selectedElement' = Some([type |-> "area", id |-> areas'[Len(areas')].id])
                  /\ drawingArea' = Some([id |-> areas'[Len(areas')].id, center |-> q])
             ELSE LET c == Val(drawingArea).center
                      r == AtLeastOnePixel(distance(c, q))
                  IN  /\ drawingArea' = None
                      /\ Len(areas') = Len(areas)
                      /\ \A i \in 1..Len(areas) :
                            IF areas[i].id = Val(drawingArea).id
                            THEN /\ areas'[i].center = areas[i].center
                                 /\ areas'[i].radius = r
                                 /\ BoxOf(areas'[i]) =
                                       areaBoundsFromCircle(areas[i].center, r, imageSize)
                                 /\ (/\ imageSize = None
                                     /\ areas[i].center = [x |-> Px(200), y |-> Px(200)]
                                     /\ c = areas[i].center
                                     /\ q = [x |-> Px(230), y |-> Px(240)]) =>
                                       /\ areas'[i].radius = Px(50)
                                       /\ areas'[i].topLeft = [x |-> Px(150), y |-> Px(150)]
                                       /\ areas'[i].bottomRight = [x |-> Px(250), y |-> Px(250)]
                            ELSE areas'[i] = areas[i]]_vars

\* The gesture is over, and the area around (200, 200) has radius 50 and the
\* box (150, 150) - (250, 250).
WitnessTwoClicksMakeOneArea ==
    /\ activeTool = "area"
    /\ drawingArea = None
    /\ imageSize = None
    /\ Len(areas) = 1
    /\ areas[1].center = [x |-> Px(200), y |-> Px(200)]
    /\ areas[1].radius = Px(50)
    /\ areas[1].topLeft = [x |-> Px(150), y |-> Px(150)]
    /\ areas[1].bottomRight = [x |-> Px(250), y |-> Px(250)]
    /\ selectedElement = Some([type |-> "area", id |-> areas[1].id])

(***************************************************************************)
(* Normalization of imported areas, under SpecNormalize                    *)
(***************************************************************************)
\* v is within one step of the number resolution of num / den pixels.
NearPixels(v, num, den) ==
    /\ IsFinite(v)
    /\ v * den - num * Unit <= den
    /\ num * Unit - v * den <= den

\* v >= 0 is within one step of the number resolution of the square root of
\* num / den square pixels.
NearRootPixels(v, num, den) ==
    /\ IsFinite(v)
    /\ v >= 1
    /\ (v - 1) * (v - 1) * den <= num * Unit * Unit
    /\ num * Unit * Unit <= (v + 1) * (v + 1) * den

\* The area an import made of the legacy triangle (0,0), (10,0), (0,10) has
\* its centre at the centroid (10/3, 10/3) and the box of its circle.
TriangleCentreAndBox(a) ==
    /\ NearPixels(a.center.x, 10, 3)
    /\ NearPixels(a.center.y, 10, 3)
    /\ a.topLeft = [x |-> a.center.x - a.radius, y |-> a.center.y - a.radius]
    /\ a.bottomRight = [x |-> a.center.x + a.radius, y |-> a.center.y + a.radius]

\* C21, as the code computes it: importing the legacy polygon (0,0), (10,0),
\* (0,10) yields an area centred at the centroid (3.33, 3.33) whose radius is
\* the greatest distance from the centroid to a vertex, sqrt(500 / 9), about
\* 7.45, with the box of that circle.
LegacyTriangleBecomesCircle ==
    [][(\E plan \in NormalizePlans : ImportPlan(plan)) =>
          \A i \in 1..Len(areas') :
             areas'[i].id = LegacyTriangle.id =>
                /\ TriangleCentreAndBox(areas'[i])
                /\ NearRootPixels(areas'[i].radius, 500, 9)]_vars

\* C21, as stated: importing the legacy polygon (0,0), (10,0), (0,10) yields
\* an area centred at the centroid (3.33, 3.33) with radius about 9.43
\* (sqrt(800 / 9)) and the box of that circle.
LegacyTriangleHasRadiusNineFortyThree ==
    [][(\E plan \in NormalizePlans : ImportPlan(plan)) =>
          \A i \in 1..Len(areas') :
             areas'[i].id = LegacyTriangle.id =>
                /\ TriangleCentreAndBox(areas'[i])
                /\ NearRootPixels(areas'[i].radius, 800, 9)]_vars

\* The workspace holds the area made of the legacy triangle.
WitnessLegacyTriangleBecomesCircle ==
    \E i \in 1..Len(areas) :
       /\ areas[i].id = LegacyTriangle.id
       /\ areas[i].name = "T"
       /\ NearRootPixels(areas[i].radius, 500, 9)

\* The shape of a raw entry: a circle when center.x, center.y and radius are
\* numbers, else a box when topLeft and bottomRight are points of numbers,
\* else a polygon when points holds a point of numbers, else none.
ShapeOf(item) ==
    IF /\ {"center", "radius"} \subseteq DOMAIN item
       /\ JNull \notin {item.center.x, item.center.y, item.radius}
    THEN "circle"
    ELSE IF /\ {"topLeft", "bottomRight"} \subseteq DOMAIN item
            /\ JNull \notin {item.topLeft.x, item.topLeft.y,
                              item.bottomRight.x, item.bottomRight.y}
    THEN "bounds"
    ELSE IF /\ "points" \in DOMAIN item
            /\ \E k \in 1..Len(item.points) :
                  item.points[k].x # JNull /\ item.points[k].y # JNull
    THEN "polygon"
    ELSE "none"

\* The entries of a raw list that have a shape, in the order of the list.
Recognised(raw) ==
    LET HasShape(item) == ShapeOf(item) # "none" IN SelectSeq(raw, HasShape)

\* The area is the conversion of the entry according to the entry's shape.
ConvertedFrom(a, item) ==
    /\ "id" \in DOMAIN item => a.id = item.id
    /\ a.name = IF "name" \in DOMAIN item THEN item.name ELSE "Area"
    /\ ShapeOf(item) = "circle" =>
          /\ a.center = [x |-> item.center.x, y |-> item.center.y]
          /\ a.radius = IF IsFinite(item.radius) /\ item.radius >= Px(1)
                        THEN item.radius ELSE Px(1)
    /\ ShapeOf(item) = "bounds" =>
          /\ 2 * a.center.x - (item.topLeft.x + item.bottomRight.x) \in {-1, 0, 1}
          /\ 2 * a.center.y - (item.topLeft.y + item.bottomRight.y) \in {-1, 0, 1}
    /\ ShapeOf(item) = "polygon" =>
          \A k \in 1..Len(item.points) :
             (item.points[k].x # JNull /\ item.points[k].y # JNull) =>
                /\ a.topLeft.x <= item.points[k].x /\ item.points[k].x <= a.bottomRight.x
                /\ a.topLeft.y <= item.points[k].y /\ item.points[k].y <= a.bottomRight.y
    /\ a.topLeft = [x |-> a.center.x - a.radius, y |-> a.center.y - a.radius]
    /\ a.bottomRight = [x |-> a.center.x + a.radius, y |-> a.center.y + a.radius]

\* C22: an import converts the entries of the raw area list one by one, each
\* by its shape with the precedence circle, bounding box, polygon; it yields
\* one area per entry that has a shape, in the order of the list, and drops
\* the entries that have none; a value that is not an array, or no value,
\* yields no area.
EntriesAreConvertedByShape ==
    [][\A plan \in NormalizePlans :
          ImportPlan(plan) =>
             IF "areas" \in DOMAIN plan /\ 0 \notin DOMAIN plan.areas
             THEN /\ Len(areas') = Len(Recognised(plan.areas))
                  /\ \A k \in 1..Len(areas') :
                        ConvertedFrom(areas'[k], Recognised(plan.areas)[k])
             ELSE areas' = << >>]_vars

\* An entry with circle and box fields became the circle, and after it an
\* entry whose centre is not a point of numbers became the circle of its box.
WitnessEntriesAreConvertedByShape ==
    /\ Len(areas) = 2
    /\ areas[1].id = RawCircleAndBounds.id
    /\ areas[1].center = RawCircleAndBounds.center
    /\ areas[1].radius = RawCircleAndBounds.radius
    /\ areas[2].id = RawBoundsBadCenter.id
    /\ areas[2].center = [x |-> Px(4), y |-> Px(3)]

(***************************************************************************)
(* Clicks, tools and gestures                                              *)
(***************************************************************************)
\* C23: while a link is in progress, a click on a drawn marker other than the
\* origin completes the link and ends the linking, and any other click (the
\* canvas, a path, an area, the origin marker) changes none of markers,
\* paths, areas, selection, linkingState, drawingPathId and drawingArea.
OnlyOtherMarkersEndLinking ==
    [][IsSome(linkingState) =>
          LET origin == Val(linkingState).fromMarkerId
          IN  /\ \A id \in Ids(markers) \ {origin} :
                    MarkerClick(id) =>
                       /\ linkingState' = None
                       /\ markers' = handleLinkMarkers(markers, paths, origin, id, clock).markers
                       /\ paths' = handleLinkMarkers(markers, paths, origin, id, clock).paths
              /\ (\/ MouseDownWhileLinking
                  \/ \E id \in Ids(paths) : PathClick(id)
                  \/ \E id \in Ids(areas) : AreaClick(id)
                  \/ MarkerClick(origin)) =>
                    UNCHANGED << markers, paths, areas, selectedElement, linkingState,
                                 drawingPathId, drawingArea >>]_vars

\* C24: in every state the active path id is absent unless the tool is path,
\* and the area being drawn is absent unless the tool is area: a change of
\* tool, the switch to select made by starting a link included, clears them.
DrawingStateBelongsToItsTool ==
    /\ activeTool # "path" => drawingPathId = None
    /\ activeTool # "area" => drawingArea = None

\* A path was drawn (its id is that of a click), the tool is no longer path
\* and no path is active.
WitnessDrawingStateBelongsToItsTool ==
    /\ activeTool # "path"
    /\ drawingPathId = None
    /\ \E i \in 1..Len(paths) : paths[i].id \in 1..MaxClock /\ paths[i].linkedMarkers = None

\* C25: with the path tool and no link in progress, a canvas click when no
\* path is active adds one path, without linkedMarkers, whose only point is
\* the clicked one, makes it the active path and clears the selection; a
\* canvas click while a path is active appends the clicked point to that path
\* and adds no path; a change of tool, Escape, an import, an image upload and
\* a reset clear the active path id.
PathToolExtendsTheActivePath ==
    [][/\ \A pos \in LinkPoints :
             AddPathPoint(pos) =>
                IF drawingPathId = None
                THEN /\ Len(paths') = Len(paths) + 1
                     /\ SubSeq(paths', 1, Len(paths)) = paths
                     /\ paths'[Len(paths')].points = << pos >>
                     /\ paths'[Len(paths')].linkedMarkers = None
                     /\ paths'[Len(paths')].id \notin Ids(paths)
                     /\ drawingPathId' = Some(paths'[Len(paths')].id)
                     /\ selectedElement' = None
                ELSE /\ Len(paths') = Len(paths)
                     /\ drawingPathId' = drawingPathId
                     /\ \E i \in 1..Len(paths) :
                           /\ paths[i].id = Val(drawingPathId)
                           /\ paths'[i] = [paths[i] EXCEPT !.points = Append(paths[i].points, pos)]
                           /\ \A j \in (1..Len(paths)) \ {i} : paths'[j] = paths[j]
       /\ (\/ SetActiveTool("select")
           \/ KeyEscape
           \/ ImportPlan(FilterPlan)
           \/ UploadImage("imgA")
           \/ ResetWorkspace) => drawingPathId' = None]_vars

\* A path drawn by two clicks at different places is the active path.
WitnessPathToolExtendsTheActivePath ==
    /\ activeTool = "path"
    /\ IsSome(drawingPathId)
    /\ \E i \in 1..Len(paths) :
          /\ paths[i].id = Val(drawingPathId)
          /\ paths[i].points = << Pt(Px(2), 0), Pt(0, 0) >>

(***************************************************************************)
(* Dragging, under SpecDrag                                                *)
(***************************************************************************)
\* The drag state names neither end of a path that has linkedMarkers.
NoDragOfLinkedEndpoint ==
    \A i \in 1..Len(paths) :
        (/\ IsSome(paths[i].linkedMarkers)
         /\ IsSome(dragging)
         /\ Val(dragging).type = "pathPoint"
         /\ Val(dragging).id = paths[i].id)
        => Val(dragging).pointIndex \notin {0, Len(paths[i].points) - 1}

\* A press with the select tool on a point handle of the selected path, other
\* than an end of a linked path, starts the drag of that point.
PressOnFreePointStartsDrag ==
    \A index \in 0..(MaxPathLen - 1) :
        (/\ PathPointMouseDown(index)
         /\ activeTool = "select"
         /\ \/ Val(HandlePath).linkedMarkers = None
            \/ index \notin {0, Len(Val(HandlePath).points) - 1})
        => dragging' = Some([type |-> "pathPoint", id |-> Val(HandlePath).id,
                             pointIndex |-> index])

\* C26: the drag state never names the first or the last point of a path with
\* linkedMarkers, inserted points included, while a press with the select
\* tool on an interior point handle of a linked path, or on any point handle
\* of a freehand path, starts the drag of that point.
LinkedEndpointsAreNeverDragged ==
    []NoDragOfLinkedEndpoint /\ [][PressOnFreePointStartsDrag]_vars

\* The interior point of a linked path of three points is the drag target.
WitnessLinkedEndpointsAreNeverDragged ==
    /\ IsSome(dragging)
    /\ Val(dragging).type = "pathPoint"
    /\ \E i \in 1..Len(paths) :
          /\ paths[i].id = Val(dragging).id
          /\ IsSome(paths[i].linkedMarkers)
          /\ Len(paths[i].points) = 3
          /\ Val(dragging).pointIndex = 1

\* A movement of the pointer over the drawing surface (handleMouseMove).
PointerMoves ==
    \/ MouseMoveIdle
    \/ \E pos \in LinkPoints \cup {Pt(Px(2), 0)} :
          \/ PreviewArea(pos)
          \/ DragMarker(pos)
          \/ DragPathPoint(pos)
          \/ DragAreaCenter(pos)

\* C27: a drag begins only while the tool is select; after a release of the
\* pointer, or its leaving the drawing surface, the drag state is absent; a
\* movement of the pointer with no drag state and no area being drawn changes
\* no marker, path or area.
DragsBeginWithSelectAndEndOnRelease ==
    [][/\ (dragging = None /\ dragging' # None) => activeTool = "select"
       /\ MouseUp => dragging' = None
       /\ (PointerMoves /\ dragging = None /\ drawingArea = None)
             => UNCHANGED << markers, paths, areas >>]_vars

\* A marker has been dragged away from its imported position and released.
WitnessDragsBeginWithSelectAndEndOnRelease ==
    /\ dragging = None
    /\ \E i \in 1..Len(markers) :
          /\ markers[i].id = PlanMarkerA.id
          /\ markers[i].position # PlanMarkerA.position

\* C28: a press on the mid-segment handle between the points i and i + 1 of
\* the selected path, with the select tool, inserts the pressed position as
\* point i + 1 of that path, which becomes one point longer with its former
\* points in their order, leaves every other path alone and sets the drag
\* state to the new point; a movement during a path point drag then changes
\* that point only.
MidHandleInsertsAndDragsOnePoint ==
    [][/\ \A index \in 0..(MaxPathLen - 2), pos \in LinkPoints :
             MidHandleMouseDown(index, pos) =>
                /\ Len(paths') = Len(paths)
                /\ \A j \in 1..Len(paths) :
                      IF paths[j].id = Val(selectedElement).id
                      THEN /\ paths'[j] = [paths[j] EXCEPT !.points = paths'[j].points]
                           /\ Len(paths'[j].points) = Len(paths[j].points) + 1
                           /\ paths'[j].points[index + 2] = pos
                           /\ \A k \in 1..Len(paths[j].points) :
                                 paths'[j].points[IF k <= index + 1 THEN k ELSE k + 1]
                                    = paths[j].points[k]
                      ELSE paths'[j] = paths[j]
                /\ dragging' = Some([type |-> "pathPoint", id |-> Val(selectedElement).id,
                                     pointIndex |-> index + 1])
                /\ UNCHANGED << markers, areas >>
       /\ \A pos \in LinkPoints :
             DragPathPoint(pos) =>
                /\ Len(paths') = Len(paths)
                /\ \A j \in 1..Len(paths) :
                      /\ paths'[j] = [paths[j] EXCEPT !.points = paths'[j].points]
                      /\ Len(paths'[j].points) = Len(paths[j].points)
                      /\ \A k \in 1..Len(paths[j].points) :
                            \/ paths'[j].points[k] = paths[j].points[k]
                            \/ /\ paths[j].id = Val(dragging).id
                               /\ k = Val(dragging).pointIndex + 1
                               /\ paths'[j].points[k] = pos
                /\ UNCHANGED << markers, areas >>]_vars

\* A point inserted between the two points of the freehand path of the plan
\* is its second point and the drag target.
WitnessMidHandleInsertsAndDragsOnePoint ==
    /\ dragging = Some([type |-> "pathPoint", id |-> PlanFreehand.id, pointIndex |-> 1])
    /\ \E j \in 1..Len(paths) :
          /\ paths[j].id = PlanFreehand.id
          /\ paths[j].points = << PlanFreehand.points[1], PlanFreehand.points[1],
                                  PlanFreehand.points[2] >>

(***************************************************************************)
(* Persistence, under SpecSelect                                           *)
(***************************************************************************)
\* C29: while an image is loaded, the value stored under the local-storage
\* key is the snapshot of the current image, markers, paths and areas; while
\* no image is loaded, nothing is stored.
StoredSnapshotIsCurrentState ==
    IF image # NoImage
    THEN storage = Some(JsonSnapshot(image, markers, paths, areas))
    ELSE storage = None

\* An image with markers, paths and an area, saved.
WitnessStoredSnapshotIsCurrentState ==
    /\ image # NoImage
    /\ Len(markers) > 0 /\ Len(paths) > 0 /\ Len(areas) > 0
    /\ IsSome(storage)
    /\ Len(Val(storage).areas) > 0

(***************************************************************************)
(* The Lua export, under SpecExport                                        *)
(***************************************************************************)
\* C30: the text of the Lua export depends on the markers and areas only: an
\* export writes the text that an export of the same markers and areas taken
\* at any other time writes.
LuaExportIgnoresTime ==
    [][\A now \in ExportTimes, other \in ExportTimes :
          (ExportLua(now) /\ IsSome(download'))
             => download' = Some(LuaText(markers, areas, other))]_vars

(***************************************************************************)
(* Deleting areas, under SpecErase                                         *)
(***************************************************************************)
\* C31: deleting the selected area removes that area and nothing else: the
\* markers with their area tags, the paths and the other areas, in their
\* order, are unchanged.
DeletingAnAreaRemovesOnlyIt ==
    [][(/\ DeleteSelected
        /\ Val(selectedElement).type = "area"
        /\ Val(selectedElement).id \in Ids(areas))
       => /\ markers' = markers
          /\ paths' = paths
          /\ Len(areas') = Len(areas) - 1
          /\ Val(selectedElement).id \notin Ids(areas')
          /\ \A i \in 1..Len(areas) :
                areas[i].id # Val(selectedElement).id
                   => \E j \in 1..Len(areas') : areas'[j] = areas[i]]_vars

\* One of the two imported areas has been deleted; the other one, the two
\* markers and the two paths are there.
WitnessDeletingAnAreaRemovesOnlyIt ==
    /\ Len(areas) = 1
    /\ selectedElement = None
    /\ Len(markers) = 2
    /\ Len(paths) = 2
    /\ markers[1].area = "north"

(***************************************************************************)
(* Failing writes to local storage, under SpecQuota                        *)
(***************************************************************************)
\* C32: a write to local storage that fails leaves the stored value as it
\* was and the state in memory as the handler set it: the upload of an image
\* over the quota loads that image into an empty workspace, and on that image
\* a click with the marker tool adds its marker, a colour change colours the
\* selected marker and a deletion removes it, as they do when the write
\* succeeds.
FailedWriteKeepsStateInMemory ==
    [][/\ UploadImage("imgHuge")
             => /\ image' = "imgHuge"
                /\ markers' = << >> /\ paths' = << >> /\ areas' = << >>
       /\ OverQuota(image) =>
             /\ \A pos \in MarkerPoints :
                   AddMarker(pos) => /\ markers' = addMarker(markers, pos, clock')
                                     /\ UNCHANGED << image, paths, areas >>
             /\ \A color \in Colors :
                   SidebarSetColor(color)
                      => /\ \E i \in 1..Len(markers) :
                               /\ markers[i].id = Val(selectedElement).id
                               /\ markers' = [markers EXCEPT ![i].color = color]
                         /\ UNCHANGED << image, areas >>
             /\ (DeleteSelected /\ Val(selectedElement).type = "marker")
                   => /\ markers' = deleteMarker(markers, paths, Val(selectedElement).id).markers
                      /\ Len(markers') = Len(markers) - 1
                      /\ UNCHANGED << image, areas >>
       /\ OverQuota(image') => storage' = storage]_vars

\* Two markers on the image over the quota, the second one recoloured, while
\* the stored snapshot is still that of the image loaded before.
WitnessFailedWriteKeepsStateInMemory ==
    /\ OverQuota(image)
    /\ Len(markers) = 2
    /\ markers[2].color # DefaultColor
    /\ IsSome(storage)
    /\ Val(storage).image = "imgA"

(***************************************************************************)
(* Link bookkeeping, under SpecLink                                        *)
(***************************************************************************)
\* The paths that link marker a to marker b, in that direction.
LinksBetween(a, b) ==
    {i \in 1..Len(paths) :
        /\ IsSome(paths[i].linkedMarkers)
        /\ Val(paths[i].linkedMarkers) = [startId |-> a, endId |-> b]}

\* C33: in every state reached from the empty workspace by editing gestures,
\* for all markers a and b, b is in the link list of a exactly when a path
\* links a to b, at most one path does, and no link list holds an id twice.
LinkListsMatchLinkedPaths ==
    /\ \A i, j \in 1..Len(markers) :
          /\ Includes(markers[i].linkedMarkerIds, markers[j].id)
                <=> LinksBetween(markers[i].id, markers[j].id) # {}
          /\ Cardinality(LinksBetween(markers[i].id, markers[j].id)) <= 1
    /\ \A i \in 1..Len(markers) :
          \A k, l \in 1..Len(markers[i].linkedMarkerIds) :
              markers[i].linkedMarkerIds[k] = markers[i].linkedMarkerIds[l] => k = l

\* Two markers linked in both directions, by one path each way.
WitnessLinkListsMatchLinkedPaths ==
    /\ Len(markers) = 2
    /\ markers[1].linkedMarkerIds = << markers[2].id >>
    /\ markers[2].linkedMarkerIds = << markers[1].id >>
    /\ Len(paths) = 2

(***************************************************************************)
(* References held by the editing state                                    *)
(***************************************************************************)
\* C34: whenever a link is in progress, the marker it starts from is one of
\* the markers.
LinkOriginExists ==
    IsSome(linkingState) => Val(linkingState).fromMarkerId \in Ids(markers)

\* C35: whenever an area is being drawn, it is one of the areas.
DrawnAreaExists ==
    IsSome(drawingArea) => Val(drawingArea).id \in Ids(areas)

\* C36: at most one linked path connects two markers, whatever its direction.
OneLinkPerPairOfMarkers ==
    \A a, b \in Ids(markers) :
        Cardinality(LinksBetween(a, b) \cup LinksBetween(b, a)) <= 1

(***************************************************************************)
(* Events that leave the elements alone, under SpecFrame                   *)
(***************************************************************************)
\* A click that changes the selection: on the background, or on a marker, a
\* path or an area when the click does not complete a link.
SelectionClick ==
    \/ MouseDownSelect
    \/ \E id \in Ids(markers) :
          /\ ~(IsSome(linkingState) /\ Val(linkingState).fromMarkerId # id)
          /\ MarkerClick(id)
    \/ \E id \in Ids(paths) : PathClick(id)
    \/ \E id \in Ids(areas) : AreaClick(id)

\* C37: Escape, Enter, a change of tool, the start and the cancellation of a
\* link, a change of selection and a toggle of a colour, area or number
\* filter leave markers, paths and areas exactly as they are; the area being
\* drawn keeps the radius it has reached.
EditingStateEventsKeepElements ==
    [][(\/ KeyEscape
        \/ KeyEnter
        \/ \E tool \in Tools : SetActiveTool(tool)
        \/ StartLinking
        \/ CancelLinking
        \/ SelectionClick
        \/ \E color \in Colors : ToggleColorFilter(color)
        \/ \E area \in AreaInputs : ToggleAreaFilter(area)
        \/ ToggleNumberFilter(PlanMarkerA.number))
       => UNCHANGED << markers, paths, areas >>]_vars

\* With the area tool, no area is being drawn and nothing is selected, and the
\* area has the radius that the pointer gave it before the second click.
WitnessEditingStateEventsKeepElements ==
    /\ activeTool = "area"
    /\ drawingArea = None
    /\ selectedElement = None
    /\ Len(areas) = 1
    /\ areas[1].radius = Px(2)
    /\ Len(markers) = 2

(***************************************************************************)
(* Replacing the workspace, under SpecSelect                               *)
(***************************************************************************)
\* C38: right after a successful plan import, an image upload or a reset, the
\* selection, the link in progress, the active path and the area being drawn
\* are all absent.
ReplacingTheWorkspaceEndsEditing ==
    [][(\/ ImportPlan(FilterPlan)
        \/ UploadImage("imgA")
        \/ ResetWorkspace)
       => /\ selectedElement' = None
          /\ linkingState' = None
          /\ drawingPathId' = None
          /\ drawingArea' = None]_vars

\* An image without elements, loaded over a workspace in which elements had
\* been created, with the area tool still active and no editing state.
WitnessReplacingTheWorkspaceEndsEditing ==
    /\ image # NoImage
    /\ markers = << >> /\ paths = << >> /\ areas = << >>
    /\ clock = MaxClock
    /\ activeTool = "area"
    /\ selectedElement = None /\ linkingState = None
    /\ drawingPathId = None /\ drawingArea = None

(***************************************************************************)
(* Image decoding, under SpecDecode                                        *)
(***************************************************************************)
\* C39: whenever the image size is known, it is the size of the image that is
\* loaded now, never that of an image loaded before.
ImageSizeIsOfCurrentImage ==
    IsSome(imageSize) => /\ image # NoImage
                         /\ imageSize = Some(SizeOf(image))

=============================================================================
